---------------------------- MODULE Spec2Model ----------------------------
(***************************************************************************)
(* A model of the request-processing core of the imaginary HTTP image      *)
(* gateway: the image sources (filesystem, remote HTTP), the middleware    *)
(* chain with URL-signature verification and rate limiting, and the        *)
(* multi-step operation pipeline.                                          *)
(*                                                                         *)
(* Strings are sequences of one-character strings, so that the string      *)
(* operations of the code (strings.HasPrefix, strings.HasSuffix, slicing)  *)
(* are computed character by character.  Each component has its own        *)
(* specification (SpecFS, SpecHTTP, ...); the variables of the other       *)
(* components stay at their initial values in it.                          *)
(***************************************************************************)
EXTENDS Integers, Sequences, FiniteSets, TLC

VARIABLES
    fsMount,    \* SourceConfig.MountPath of the filesystem source
    fsFile,     \* value of the `file` query parameter of the request
    fsOut,      \* outcome of FileSystemImageSource.GetImage for it
    fsServed,   \* TRUE once the request has been served
    httpAllowed,    \* SourceConfig.AllowedOrigins: a list of [Host, Path]
    httpMaxSize,    \* SourceConfig.MaxAllowedSize
    httpURL,        \* the `url` query parameter: [bad, Host, Path]
    httpOut,        \* outcome of HTTPImageSource.GetImage for it
    httpServed,
    httpBuild,      \* which definition of HTTPImageSource the build links
    httpAuth,       \* Authorization, AuthForwarding, ForwardHeaders of the config
    httpHdr,        \* the headers of the caller's request
    httpRemote,     \* what the remote server answered to HEAD and to GET     \* TRUE once the request has been served
    plOps,          \* ImageOptions.Operations of the pipeline request
    plOut,          \* what Pipeline returned and which transforms it ran
    plServed,       \* TRUE once the request has been served
    sigKey,         \* ServerOptions.URLSignatureKey
    sigReq,         \* the request: [Path, Query], Query a set of [k, v]
    sigOut,         \* what checkURLSignature answered
    sigServed,      \* TRUE once the request has been served
    chOpts,         \* ServerOptions
    chReq,          \* the request: [Method, Path, Header, Query, RemoteAddr]
    chTrace,        \* the handlers that ran for the last request, in order
    chResp,         \* the response to the last request
    chServed,       \* how many times the request has been served
    rlNow,          \* the clock, in ticks
    rlStore,        \* the limiters' store: <<limiter, key>> -> theoretical arrival time
    rlWindow,       \* per <<route, method>>: start and admissions of the busy window
    rlLast,         \* the last rate-limit decision
    rlDenied,       \* the <<route, method>> pairs denied at the current instant
    rlTraffic,      \* the requests that arrive, and until when
    hdOpts,         \* ServerOptions of the image handler
    hdReq,          \* the request given to the image handler
    hdOut,          \* the work done for it and the response
    hdServed,       \* TRUE once the request has been served
    bdBuild,        \* which definition of BodyImageSource the build links
    bdReq,          \* the request given to the body source
    bdOut,          \* outcome of BodyImageSource.GetImage for it
    bdServed,       \* TRUE once the request has been served
    rgBuild,        \* which definition of FileSystemImageSource.Matches is linked
    rgReq,          \* the request given to the source registry
    rgRes,          \* the results of the calls of MatchSource for it, in order
    rgOpts,         \* the mount and the URL source of the server's options
    rgGot,          \* what the image handler's getImageFromURL did for the request
    opReq,          \* the operation called and its ImageOptions
    opOut,          \* the calls of the transform made for it and the result
    opServed,       \* TRUE once the operation has returned
    crReg,          \* the registry shared by the goroutines: factories and sources
    crMu,           \* its sync.RWMutex: a writer holds it, the number of readers
    crPc,           \* where each goroutine is in its call
    crLoc,          \* the locals of the calls: what is left to load, what was seen
    crComplete      \* the source sets that a completed LoadSources left

fsVars == <<fsMount, fsFile, fsOut, fsServed>>

httpVars == <<httpAllowed, httpMaxSize, httpURL, httpOut, httpServed,
              httpBuild, httpAuth, httpHdr, httpRemote>>

plVars == <<plOps, plOut, plServed>>

sigVars == <<sigKey, sigReq, sigOut, sigServed>>

chVars == <<chOpts, chReq, chTrace, chResp, chServed>>

rlVars == <<rlNow, rlStore, rlWindow, rlLast, rlDenied, rlTraffic>>

hdVars == <<hdOpts, hdReq, hdOut, hdServed>>

bdVars == <<bdBuild, bdReq, bdOut, bdServed>>

rgVars == <<rgBuild, rgReq, rgRes, rgOpts, rgGot>>

opVars == <<opReq, opOut, opServed>>
crVars == <<crReg, crMu, crPc, crLoc, crComplete>>

vars == <<fsVars, httpVars, plVars, sigVars, chVars, rlVars, hdVars, bdVars,
          rgVars, opVars, crVars>>

(***************************************************************************)
(* Strings                                                                 *)
(***************************************************************************)

\* strings.HasPrefix
HasPrefix(s, p) == Len(p) <= Len(s) /\ SubSeq(s, 1, Len(p)) = p

\* strings.HasSuffix
HasSuffix(s, p) == Len(p) <= Len(s) /\ SubSeq(s, Len(s) - Len(p) + 1, Len(s)) = p

\* All sequences over S of length 0..n
SeqsUpTo(S, n) == UNION {[1..k -> S] : k \in 0..n}

(***************************************************************************)
(* Filesystem source (source_fs.go)                                        *)
(***************************************************************************)

\* Longest `file` parameter that is enumerated.
MaxFileLen == 5

\* The characters a `file` parameter is made of.  "%2E" stands for the three
\* characters of the percent-escape of ".", "%" for a percent sign that is
\* followed by no two hex digits.
FileChars == {"/", ".", "a", "%2E"}

\* The `file` parameters of the requests: every string over FileChars up to
\* MaxFileLen, and some with a malformed escape.
FileParams ==
    SeqsUpTo(FileChars, MaxFileLen) \cup {<<"%">>, <<"a", "%">>, <<".", ".", "/", "%">>}

\* The configured mount roots that are explored.
MountPaths == {<<"/", "a">>, <<"/", "a", "/">>, <<"/", "a", "/", "a">>}

\* url.QueryUnescape: decodes percent-escapes, fails on a malformed escape.
QueryUnescape(s) ==
    IF \E i \in 1..Len(s) : s[i] = "%"
    THEN [err |-> TRUE, val |-> <<>>]
    ELSE [err |-> FALSE,
          val |-> [i \in 1..Len(s) |-> IF s[i] = "%2E" THEN "." ELSE s[i]]]

\* FileSystemImageSource.getFileParam: the value url.Values.Get returned,
\* unescaped once more.
getFileParam(fileQuery) ==
    IF fileQuery = <<>> THEN [err |-> FALSE, val |-> <<>>]
    ELSE QueryUnescape(fileQuery)

\* The elements of a path between its separators (empty elements included).
RECURSIVE SplitPath(_, _, _)
SplitPath(s, i, cur) ==
    IF i > Len(s) THEN <<cur>>
    ELSE IF s[i] = "/" THEN <<cur>> \o SplitPath(s, i + 1, <<>>)
    ELSE SplitPath(s, i + 1, Append(cur, s[i]))

\* The elements joined by one separator each.
RECURSIVE JoinSegs(_)
JoinSegs(segs) ==
    IF Len(segs) = 0 THEN <<>>
    ELSE IF Len(segs) = 1 THEN segs[1]
    ELSE segs[1] \o <<"/">> \o JoinSegs(Tail(segs))

\* The element stack of filepath.Clean: "" and "." are dropped, ".." removes
\* the element before it, is dropped at the root of a rooted path and kept at
\* the start of a relative one.
RECURSIVE CleanSegs(_, _, _)
CleanSegs(segs, stack, rooted) ==
    IF Len(segs) = 0 THEN stack
    ELSE LET h == Head(segs)
             t == Tail(segs)
         IN  IF h = <<>> \/ h = <<".">> THEN CleanSegs(t, stack, rooted)
             ELSE IF h = <<".", ".">>
             THEN IF Len(stack) > 0 /\ stack[Len(stack)] # <<".", ".">>
                  THEN CleanSegs(t, SubSeq(stack, 1, Len(stack) - 1), rooted)
                  ELSE IF rooted THEN CleanSegs(t, stack, rooted)
                  ELSE CleanSegs(t, Append(stack, h), rooted)
             ELSE CleanSegs(t, Append(stack, h), rooted)

\* filepath.Clean (Unix): the shortest lexically equivalent path.
Clean(p) ==
    IF p = <<>> THEN <<".">>
    ELSE LET rooted == p[1] = "/"
             out    == JoinSegs(CleanSegs(SplitPath(p, 1, <<>>), <<>>, rooted))
         IN  IF rooted THEN <<"/">> \o out
             ELSE IF out = <<>> THEN <<".">> ELSE out

\* filepath.Join of two elements: the non-empty ones joined by a separator,
\* then cleaned.
Join(a, b) ==
    IF a = <<>> /\ b = <<>> THEN <<>>
    ELSE IF a = <<>> THEN Clean(b)
    ELSE IF b = <<>> THEN Clean(a)
    ELSE Clean(a \o <<"/">> \o b)

\* FileSystemImageSource.buildPath: the path to read, or the rejection.
buildPathPrefix(mount, file) ==
    LET cleanPath == Clean(Join(mount, file))
    IN  IF ~HasPrefix(cleanPath, mount)
        THEN [err |-> "ErrInvalidFilePath", path |-> <<>>]
        ELSE [err |-> "", path |-> cleanPath]

buildPath(mount, file) == buildPathPrefix(mount, file)

\* What os.Open / Read can answer.
ReadOutcomes == {"ok", "ErrNotExist", "ErrPermission", "other"}

\* read with a denied permission reported as any other failure.
readNotExistOnly(outcome) ==
    CASE outcome = "ok" -> ""
      [] outcome = "ErrNotExist" -> "ErrInvalidFilePath"
      [] OTHER -> "failed to read file"

\* FileSystemImageSource.read: the error GetImage returns for a read outcome.
read(outcome) ==
    CASE outcome = "ok" -> ""
      [] outcome \in {"ErrNotExist", "ErrPermission"} -> "ErrInvalidFilePath"
      [] OTHER -> "failed to read file"

\* FileSystemImageSource.GetImage: `opened` lists the paths handed to
\* os.Open, `err` is "" when the image bytes are returned.
FSGetImage(mount, fileQuery, outcome) ==
    LET p == getFileParam(fileQuery)
    IN  IF p.err THEN [err |-> "unescape", opened |-> <<>>, read |-> "none"]
        ELSE IF p.val = <<>>
        THEN [err |-> "ErrMissingParamFile", opened |-> <<>>, read |-> "none"]
        ELSE LET b == buildPath(mount, p.val)
             IN  IF b.err # "" THEN [err |-> b.err, opened |-> <<>>, read |-> "none"]
                 ELSE [err |-> read(outcome), opened |-> <<b.path>>, read |-> outcome]

FSIdleOut == [err |-> "", opened |-> <<>>, read |-> "none"]

\* The filesystem source when no request is given to it.
FSIdle ==
    /\ fsMount = <<>>
    /\ fsFile = <<>>
    /\ fsOut = FSIdleOut
    /\ fsServed = FALSE

\* A GET request with a `file` parameter is served by the filesystem source.
FSRequest ==
    \E outcome \in ReadOutcomes :
        /\ ~fsServed
        /\ fsServed' = TRUE
        /\ fsOut' = FSGetImage(fsMount, fsFile, outcome)
        /\ UNCHANGED <<fsMount, fsFile>>
        /\ UNCHANGED <<httpVars, plVars, sigVars, chVars, rlVars, hdVars, bdVars, rgVars, opVars, crVars>>

\* C1: FileSystemImageSource.GetImage opens a file only at a path inside the
\* configured mount root (the claim asks for a strict descendant of it; the
\* statement here allows the root itself and is still violated): whatever
\* the `file` parameter, ".." segments included, every path handed to
\* os.Open has the elements of the mount root as its leading elements.
PathSegs(p) == CleanSegs(SplitPath(p, 1, <<>>), <<>>, TRUE)

InsideMount(p, root) ==
    /\ Len(PathSegs(root)) <= Len(PathSegs(p))
    /\ SubSeq(PathSegs(p), 1, Len(PathSegs(root))) = PathSegs(root)

C1_ReadsOnlyInsideMount ==
    fsServed => \A i \in 1..Len(fsOut.opened) : InsideMount(fsOut.opened[i], fsMount)

\* The error of a traversal rejection: the `file` parameter ".." leaves
\* every mount root.
TraversalError == buildPath(<<"/", "a">>, <<".", ".">>).err

MaxHostLen == 3
MaxPathLen == 2

HostChars == {"a", "."}
PathChars == {"/", "p"}

\* The allow-list entries (url.URL values, Host and Path) that are explored:
\* exact hosts and wildcard hosts, with and without a path.
OriginA     == [Host |-> <<"a">>, Path |-> <<>>]
OriginAP    == [Host |-> <<"a">>, Path |-> <<"/", "p">>]
OriginWild  == [Host |-> <<"*", ".", "a">>, Path |-> <<>>]
OriginWildP == [Host |-> <<"*", ".", "a">>, Path |-> <<"/", "p">>]

AllowLists ==
    {<<>>, <<OriginA>>, <<OriginAP>>, <<OriginWild>>, <<OriginWildP>>,
     <<OriginAP, OriginWildP>>, <<OriginWild, OriginAP>>}

\* The requested URLs: one that url.Parse rejects, and every Host and Path
\* within the bounds.
RequestURLs ==
    {[bad |-> TRUE, Host |-> <<>>, Path |-> <<>>]} \cup
    {[bad |-> FALSE, Host |-> h, Path |-> q] :
        h \in SeqsUpTo(HostChars, MaxHostLen), q \in SeqsUpTo(PathChars, MaxPathLen)}

\* originAdmits with the wildcard suffix taken without its leading dot.
originAdmitsNoDot(origin, url) ==
    \/ origin.Host = url.Host /\ HasPrefix(url.Path, origin.Path)
    \/ /\ HasPrefix(origin.Host, <<"*", ".">>)
       /\ HasSuffix(url.Host, SubSeq(origin.Host, 3, Len(origin.Host)))
       /\ HasPrefix(url.Path, origin.Path)

\* One allow-list entry admits the URL: the two tests of the loop body.
originAdmits(origin, url) ==
    \/ origin.Host = url.Host /\ HasPrefix(url.Path, origin.Path)
    \/ /\ HasPrefix(origin.Host, <<"*", ".">>)
       /\ LET suffix == SubSeq(origin.Host, 2, Len(origin.Host))
          IN  /\ \/ url.Host = SubSeq(origin.Host, 3, Len(origin.Host))
                 \/ HasSuffix(url.Host, suffix)
              /\ HasPrefix(url.Path, origin.Path)

\* HTTPImageSource.shouldRestrictOrigin
shouldRestrictOrigin(allowed, url) ==
    IF Len(allowed) = 0 THEN FALSE
    ELSE ~\E i \in 1..Len(allowed) : originAdmits(allowed[i], url)

\* The maximum byte size (MaxAllowedSize) that is configured when one is.
FetchLimit == 2

\* What the remote server can answer to the HEAD probe and to the GET:
\* a transport error, or a status with a content length / a body length.
HeadResponses ==
    {[fail |-> TRUE, status |-> 0, clen |-> 0]} \cup
    {[fail |-> FALSE, status |-> st, clen |-> n] :
        st \in {200, 404}, n \in {1, FetchLimit + 1}}

GetResponses ==
    {[fail |-> TRUE, status |-> 0, len |-> 0]} \cup
    {[fail |-> FALSE, status |-> st, len |-> n] :
        st \in {200, 500}, n \in {1, FetchLimit + 1}}

\* HTTPImageSource.checkImageSize: the error of the HEAD probe, "" if none.
checkImageSize(maxSize, head) ==
    IF head.fail THEN "error checking image size"
    ELSE IF head.status < 200 \/ head.status > 206
    THEN "invalid status checking image size"
    ELSE IF head.clen > maxSize THEN "content length exceeds maximum"
    ELSE ""

\* The package holds two definitions of HTTPImageSource, one in
\* source_http.go and one in source.go; a build links one of them.
HTTPBuilds == {"source_http.go", "source.go"}

\* The headers that are followed: of the caller's request and of the
\* outbound request.  "" is an absent header.
HeaderNames == {"Authorization", "X-Forward-Authorization", "X-Custom"}

NoHeaders == [n \in HeaderNames |-> ""]

\* The authorization part of SourceConfig that is explored.
AuthOff == [Authorization |-> "", AuthForwarding |-> FALSE, ForwardHeaders |-> <<>>]

AuthConfigs ==
    [Authorization : {"", "server"}, AuthForwarding : BOOLEAN,
     ForwardHeaders : {<<>>, <<"X-Custom">>, <<"Authorization">>, <<"authorization">>,
                       <<"X-Forward-Authorization">>}]

\* textproto.CanonicalMIMEHeaderKey, which Header.Get and Header.Set apply to
\* the name they are given, on the names in use.
CanonicalMIMEHeaderKey(h) == IF h = "authorization" THEN "Authorization" ELSE h

CallerHeaders ==
    {[n \in HeaderNames |->
        IF n = "Authorization" THEN a ELSE IF n = "X-Forward-Authorization" THEN f ELSE x] :
        a \in {"", "caller"}, f \in {"", "forwarded"}, x \in {"", "custom"}}

\* HTTPImageSource.setAuthorizationHeader
setAuthorizationHeader(cfg, out, ireq) ==
    IF cfg.Authorization # "" THEN [out EXCEPT !["Authorization"] = cfg.Authorization]
    ELSE IF ireq["X-Forward-Authorization"] # ""
    THEN [out EXCEPT !["Authorization"] = ireq["X-Forward-Authorization"]]
    ELSE IF ireq["Authorization"] # ""
    THEN [out EXCEPT !["Authorization"] = ireq["Authorization"]]
    ELSE out

\* HTTPImageSource.setForwardHeaders: every listed header the caller sent.
setForwardHeaders(cfg, out, ireq) ==
    [n \in HeaderNames |->
        IF (\E i \in 1..Len(cfg.ForwardHeaders) :
                CanonicalMIMEHeaderKey(cfg.ForwardHeaders[i]) = n) /\ ireq[n] # ""
        THEN ireq[n] ELSE out[n]]

\* newRequest that sets the authorization whatever the configuration is.
newRequestAlwaysAuth(build, cfg, method, ireq) ==
    LET auth(h) == setAuthorizationHeader(cfg, h, ireq)
        fwd(h)  == IF Len(cfg.ForwardHeaders) > 0
                   THEN setForwardHeaders(cfg, h, ireq) ELSE h
    IN  [Method |-> method,
         Header |-> IF build = "source_http.go" THEN auth(fwd(NoHeaders))
                    ELSE fwd(auth(NoHeaders))]

\* HTTPImageSource.newRequest: source_http.go forwards the headers and then
\* sets the authorization, source.go does it the other way round.
newRequest(build, cfg, method, ireq) ==
    LET auth(h) == IF cfg.AuthForwarding \/ cfg.Authorization # ""
                   THEN setAuthorizationHeader(cfg, h, ireq) ELSE h
        fwd(h)  == IF Len(cfg.ForwardHeaders) > 0
                   THEN setForwardHeaders(cfg, h, ireq) ELSE h
    IN  [Method |-> method,
         Header |-> IF build = "source_http.go" THEN auth(fwd(NoHeaders))
                    ELSE fwd(auth(NoHeaders))]

\* The bytes of a body of length len that fetchImage returns: source_http.go
\* reads the whole body, source.go reads through io.LimitReader(maxSize).
readBody(build, maxSize, len) ==
    IF build = "source_http.go" THEN len
    ELSE IF maxSize <= 0 THEN 0
    ELSE IF len > maxSize THEN maxSize ELSE len

\* fetchImage with the GET sent before the HEAD probe.
fetchImageGetFirst(build, cfg, maxSize, ireq, head, get) ==
    LET sizeErr == IF maxSize > 0 THEN checkImageSize(maxSize, head) ELSE ""
        sent    == <<newRequest(build, cfg, "GET", ireq)>> \o
                   (IF maxSize > 0 THEN <<newRequest(build, cfg, "HEAD", ireq)>> ELSE <<>>)
    IN  IF get.fail \/ get.status # 200
        THEN [err |-> "error fetching remote http image", outbound |-> sent, len |-> 0]
        ELSE [err |-> sizeErr, outbound |-> sent,
              len |-> IF sizeErr # "" THEN 0 ELSE readBody(build, maxSize, get.len)]

\* HTTPImageSource.fetchImage: the HEAD probe when a maximum size is set,
\* then the GET; `outbound` lists the requests sent, in order.
fetchImage(build, cfg, maxSize, ireq, head, get) ==
    LET sizeErr == IF maxSize > 0 THEN checkImageSize(maxSize, head) ELSE ""
        probe   == IF maxSize > 0 THEN <<newRequest(build, cfg, "HEAD", ireq)>> ELSE <<>>
        sent    == Append(probe, newRequest(build, cfg, "GET", ireq))
    IN  IF sizeErr # "" THEN [err |-> sizeErr, outbound |-> probe, len |-> 0]
        ELSE IF get.fail
        THEN [err |-> "error fetching remote http image", outbound |-> sent, len |-> 0]
        ELSE IF get.status # 200
        THEN [err |-> "error fetching remote http image: status",
              outbound |-> sent, len |-> 0]
        ELSE [err |-> "", outbound |-> sent, len |-> readBody(build, maxSize, get.len)]

\* HTTPImageSource.GetImage
HTTPGetImage(build, cfg, allowed, maxSize, url, ireq, head, get) ==
    IF url.bad THEN [err |-> "ErrInvalidImageURL", outbound |-> <<>>, len |-> 0]
    ELSE IF shouldRestrictOrigin(allowed, url)
    THEN [err |-> "not allowed remote URL origin", outbound |-> <<>>, len |-> 0]
    ELSE fetchImage(build, cfg, maxSize, ireq, head, get)

HTTPIdleOut == [err |-> "", outbound |-> <<>>, len |-> 0]

NoRemote == [head |-> [fail |-> TRUE, status |-> 0, clen |-> 0],
             get |-> [fail |-> TRUE, status |-> 0, len |-> 0]]

\* The answers the source received: one to each request it sent.
Answered(outbound, head, get) ==
    [head |-> IF \E i \in 1..Len(outbound) : outbound[i].Method = "HEAD"
              THEN head ELSE NoRemote.head,
     get  |-> IF \E i \in 1..Len(outbound) : outbound[i].Method = "GET"
              THEN get ELSE NoRemote.get]

\* The remote source when no request is given to it.
HTTPIdle ==
    /\ httpAllowed = <<>>
    /\ httpMaxSize = 0
    /\ httpURL = [bad |-> TRUE, Host |-> <<>>, Path |-> <<>>]
    /\ httpOut = HTTPIdleOut
    /\ httpServed = FALSE
    /\ httpBuild = "source_http.go"
    /\ httpAuth = AuthOff
    /\ httpHdr = NoHeaders
    /\ httpRemote = NoRemote

\* A GET request with a `url` parameter is served by the remote source.
HTTPRequest ==
    \E head \in HeadResponses, get \in GetResponses :
        \E out \in {HTTPGetImage(httpBuild, httpAuth, httpAllowed, httpMaxSize,
                                 httpURL, httpHdr, head, get)} :
            /\ ~httpServed
            /\ httpServed' = TRUE
            /\ httpOut' = out
            /\ httpRemote' = Answered(out.outbound, head, get)
        /\ UNCHANGED <<httpAllowed, httpMaxSize, httpURL, httpBuild, httpAuth, httpHdr>>
        /\ UNCHANGED <<fsVars, plVars, sigVars, chVars, rlVars, hdVars, bdVars, rgVars, opVars, crVars>>

\* C2: with a non-empty allow-list, GetImage for a URL that matches no entry
\* returns an error and sends no HEAD and no GET; with an empty allow-list
\* the origin check rejects no URL.  An entry matches by its exact host, or,
\* when it begins with "*.", by a host equal to the rest or ending in "."
\* followed by the rest, and in both cases its path is a prefix of the URL's.
EntryMatches(e, u) ==
    /\ \/ e.Host = u.Host
       \/ /\ Len(e.Host) >= 2 /\ e.Host[1] = "*" /\ e.Host[2] = "."
          /\ LET rest == SubSeq(e.Host, 3, Len(e.Host))
             IN  u.Host = rest \/ HasSuffix(u.Host, <<".">> \o rest)
    /\ HasPrefix(u.Path, e.Path)

NoEntryMatches == \A i \in 1..Len(httpAllowed) : ~EntryMatches(httpAllowed[i], httpURL)

C2_AllowListGuardsOutbound ==
    (httpServed /\ ~httpURL.bad) =>
        /\ (httpAllowed # <<>> /\ NoEntryMatches) =>
               (httpOut.err # "" /\ httpOut.outbound = <<>>)
        /\ httpAllowed = <<>> => httpOut.err # "not allowed remote URL origin"

\* A host that only shares its last letters with the wildcard entry is
\* refused, with a size limit configured and nothing sent.
C2_Witness ==
    /\ httpServed /\ ~httpURL.bad
    /\ httpAllowed = <<OriginWild>> /\ httpURL.Host = <<"a", "a">>
    /\ NoEntryMatches /\ httpMaxSize > 0
    /\ httpOut.err = "not allowed remote URL origin" /\ httpOut.outbound = <<>>

\* The requests sent by the fetch, by method.
Methods(out) == [i \in 1..Len(out) |-> out[i].Method]

\* The request reached fetchImage.
Fetched == httpServed /\ ~httpURL.bad /\ ~shouldRestrictOrigin(httpAllowed, httpURL)

\* C13: with a maximum byte size configured (> 0) every remote fetch sends
\* the HEAD probe first and the GET, if any, after it, at most one of each;
\* when the HEAD response declares a content length above the limit the
\* fetch fails and no GET is sent.
C13_HeadBeforeGet ==
    (Fetched /\ httpMaxSize > 0) =>
        /\ Methods(httpOut.outbound) \in {<<"HEAD">>, <<"HEAD", "GET">>}
        /\ (~httpRemote.head.fail /\ httpRemote.head.clen > httpMaxSize) =>
               (httpOut.err # "" /\ Methods(httpOut.outbound) = <<"HEAD">>)

\* A HEAD answered 200 with a content length above the limit: rejected
\* after the probe alone.
C13_Witness ==
    /\ Fetched /\ httpMaxSize > 0
    /\ ~httpRemote.head.fail /\ httpRemote.head.status = 200
    /\ httpRemote.head.clen > httpMaxSize
    /\ httpOut.err = "content length exceeds maximum"
    /\ Methods(httpOut.outbound) = <<"HEAD">>

\* A probe that passes is followed by the one GET.
C13_WitnessFetched ==
    /\ Fetched /\ httpMaxSize > 0 /\ httpOut.err = ""
    /\ Methods(httpOut.outbound) = <<"HEAD", "GET">>

\* C14: with a maximum byte size configured, a GET response body longer than
\* the limit makes the fetch fail; GetImage never returns more bytes than the
\* limit and never returns less than the body the server sent as if it were
\* the whole image; with no limit configured the whole body is returned.
C14_BodyBounded ==
    Fetched =>
        /\ (/\ httpMaxSize > 0
            /\ ~httpRemote.get.fail /\ httpRemote.get.status = 200
            /\ httpRemote.get.len > httpMaxSize) => httpOut.err # ""
        /\ httpMaxSize > 0 => httpOut.len <= httpMaxSize
        /\ (httpOut.err = "" => httpOut.len = httpRemote.get.len)

\* C16: when auth forwarding or a server-side Authorization is configured,
\* whatever headers are configured for forwarding, every outbound request
\* carries as Authorization the configured server-side value if non-empty,
\* otherwise the caller's X-Forward-Authorization if non-empty, otherwise
\* the caller's own Authorization.
C16_AuthorizationPriority ==
    (Fetched /\ (httpAuth.AuthForwarding \/ httpAuth.Authorization # "")) =>
        \A i \in 1..Len(httpOut.outbound) :
            httpOut.outbound[i].Header["Authorization"] =
                IF httpAuth.Authorization # "" THEN httpAuth.Authorization
                ELSE IF httpHdr["X-Forward-Authorization"] # ""
                THEN httpHdr["X-Forward-Authorization"]
                ELSE httpHdr["Authorization"]

\* No authorization is configured: auth forwarding is off and there is no
\* server-side Authorization.
NoAuthConfigured == ~httpAuth.AuthForwarding /\ httpAuth.Authorization = ""

\* The forwarded-header list names the header n.
ForwardNames(n) ==
    \E i \in 1..Len(httpAuth.ForwardHeaders) :
        CanonicalMIMEHeaderKey(httpAuth.ForwardHeaders[i]) = n

\* The caller's headers without its Authorization and X-Forward-Authorization.
WithoutCredentials(hdr) ==
    [hdr EXCEPT !["Authorization"] = "", !["X-Forward-Authorization"] = ""]

\* No outbound request carries an Authorization header, and each is the
\* request that would be sent for a caller without the two headers.
NoCredentialFlows ==
    \A i \in 1..Len(httpOut.outbound) :
        /\ httpOut.outbound[i].Header["Authorization"] = ""
        /\ httpOut.outbound[i] =
               newRequest(httpBuild, httpAuth, httpOut.outbound[i].Method,
                          WithoutCredentials(httpHdr))

\* C38 as stated: when no authorization is configured and the
\* forwarded-header list does not name Authorization, no outbound request
\* carries an Authorization header and the outbound request is the same
\* whatever the caller's Authorization and X-Forward-Authorization are.
C38_NoAuthorizationLeaves ==
    (Fetched /\ NoAuthConfigured /\ ~ForwardNames("Authorization")) => NoCredentialFlows

\* C38, amended: the same when the forwarded-header list names neither
\* Authorization nor X-Forward-Authorization.
C38_NoCredentialLeaves ==
    (/\ Fetched /\ NoAuthConfigured
     /\ ~ForwardNames("Authorization") /\ ~ForwardNames("X-Forward-Authorization")) =>
        NoCredentialFlows

\* A caller with both headers and a forwarded X-Custom: HEAD and GET are
\* sent with X-Custom alone.
C38_Witness ==
    /\ Fetched /\ NoAuthConfigured /\ httpAuth.ForwardHeaders = <<"X-Custom">>
    /\ httpHdr = [n \in HeaderNames |->
                     IF n = "Authorization" THEN "caller"
                     ELSE IF n = "X-Forward-Authorization" THEN "forwarded" ELSE "custom"]
    /\ Len(httpOut.outbound) = 2
    /\ \A i \in 1..2 : /\ httpOut.outbound[i].Header["X-Custom"] = "custom"
                         /\ httpOut.outbound[i].Header["Authorization"] = ""

(***************************************************************************)
(* Operation pipeline (image.go, Pipeline)                                 *)
(***************************************************************************)

\* The limit on the number of steps of a pipeline.
MaxPipelineOps == 10

\* Longest step list of which every combination of steps is enumerated.
MaxSteps == 3

\* The keys of OperationsMap.
OperationNames ==
    {"crop", "resize", "enlarge", "extract", "rotate", "autorotate", "flip",
     "flop", "thumbnail", "zoom", "convert", "watermark", "watermarkImage",
     "blur", "smartcrop", "fit"}

\* A step of a request: its operation name, whether buildParamsFromOperation
\* rejects its parameters, whether its transform fails when it is invoked,
\* and its ignore-failure flag.
StepKinds ==
    {st \in [Name : {"resize", "nosuchop"}, badParams : BOOLEAN,
             fails : BOOLEAN, IgnoreFailure : BOOLEAN] :
        /\ st.Name = "nosuchop" => (~st.badParams /\ ~st.fails)
        /\ st.badParams => ~st.fails}

\* The step lists of the requests: every list up to MaxSteps, and lists of
\* one repeated step around the limit.
StepLists ==
    SeqsUpTo(StepKinds, MaxSteps) \cup
    {[i \in 1..n |-> st] :
        n \in (MaxPipelineOps - 1)..(MaxPipelineOps + 2), st \in StepKinds}

\* The request's image bytes, and the zero Image{} returned with an error.
\* An image is the list of the positions of the steps applied to the input.
OriginalImage == <<>>
NoImage == <<-1>>

\* The external transform of the step at position `pos`, on success.
Transform(body, pos) == Append(body, pos)

\* The image carried to the next step that always takes the step's result.
keepResultAlways(image, result, failed) == result

\* The image carried to the next step: the result replaces it on success only.
keepResult(image, result, failed) == IF failed THEN image ELSE result

\* The loop of Pipeline from position i on.  `ran` lists the transform
\* invocations, each with its position and its input; `pos` is the position
\* an error message is annotated with (0: none).
RECURSIVE runSteps(_, _, _, _)
runSteps(ops, i, image, ran) ==
    IF i > Len(ops) THEN [err |-> "", pos |-> 0, image |-> image, ran |-> ran]
    ELSE IF ops[i].Name \notin OperationNames
    THEN [err |-> "Unsupported operation", pos |-> 0, image |-> NoImage, ran |-> ran]
    ELSE IF ops[i].badParams
    THEN [err |-> "pipeline operation failed", pos |-> i, image |-> NoImage, ran |-> ran]
    ELSE LET ran2   == Append(ran, [pos |-> i, input |-> image])
             result == IF ops[i].fails THEN NoImage ELSE Transform(image, i)
         IN  IF ops[i].fails /\ ~ops[i].IgnoreFailure
             THEN [err |-> "transform error", pos |-> 0, image |-> NoImage, ran |-> ran2]
             ELSE runSteps(ops, i + 1, keepResult(image, result, ops[i].fails), ran2)

\* Pipeline with the limit tested by >= instead of >.
PipelineStrictLimit(ops) ==
    IF Len(ops) = 0
    THEN [err |-> "Missing pipeline operations", pos |-> 0, image |-> NoImage, ran |-> <<>>]
    ELSE IF Len(ops) >= MaxPipelineOps
    THEN [err |-> "Maximum pipeline operations exceeded", pos |-> 0,
          image |-> NoImage, ran |-> <<>>]
    ELSE runSteps(ops, 1, OriginalImage, <<>>)

\* Pipeline
Pipeline(ops) ==
    IF Len(ops) = 0
    THEN [err |-> "Missing pipeline operations", pos |-> 0, image |-> NoImage, ran |-> <<>>]
    ELSE IF Len(ops) > MaxPipelineOps
    THEN [err |-> "Maximum pipeline operations exceeded", pos |-> 0,
          image |-> NoImage, ran |-> <<>>]
    ELSE runSteps(ops, 1, OriginalImage, <<>>)

PLIdleOut == [err |-> "", pos |-> 0, image |-> NoImage, ran |-> <<>>]

\* The pipeline when no request is given to it.
PLIdle ==
    /\ plOps = <<>>
    /\ plOut = PLIdleOut
    /\ plServed = FALSE

\* The pipeline operation is run on the image of a request.
PipelineRequest ==
    /\ ~plServed
    /\ plServed' = TRUE
    /\ plOut' = Pipeline(plOps)
    /\ UNCHANGED plOps
    /\ UNCHANGED <<fsVars, httpVars, sigVars, chVars, rlVars, hdVars, bdVars, rgVars, opVars, crVars>>

\* C8: Pipeline rejects a step list of length 0 or of length above 10 with
\* an error and without invoking any transform, and never rejects a list of
\* 1 to 10 steps for its length.
LengthErrors == {"Missing pipeline operations", "Maximum pipeline operations exceeded"}

C8_LengthCheckedFirst ==
    plServed =>
        /\ (Len(plOps) = 0 \/ Len(plOps) > MaxPipelineOps) =>
               (plOut.err \in LengthErrors /\ plOut.ran = <<>> /\ plOut.image = NoImage)
        /\ Len(plOps) \in 1..MaxPipelineOps => plOut.err \notin LengthErrors

\* Eleven steps that would each succeed: rejected, none of them run.
C8_Witness ==
    /\ plServed /\ Len(plOps) = MaxPipelineOps + 1
    /\ \A i \in 1..Len(plOps) :
           plOps[i].Name \in OperationNames /\ ~plOps[i].badParams /\ ~plOps[i].fails
    /\ plOut.err = "Maximum pipeline operations exceeded" /\ plOut.ran = <<>>

\* C9: when a step of a pipeline of 1 to 10 steps names an operation that is
\* not in OperationsMap, Pipeline returns the unsupported-operation error
\* (the parameters of the steps before it being well formed) and no step
\* has invoked its transform.
UnknownSteps == {k \in 1..Len(plOps) : plOps[k].Name \notin OperationNames}

FirstUnknown == CHOOSE k \in UnknownSteps : \A j \in UnknownSteps : k <= j

C9_UnknownOpRunsNoStep ==
    (plServed /\ Len(plOps) \in 1..MaxPipelineOps /\ UnknownSteps # {}) =>
        /\ plOut.ran = <<>>
        /\ (\A j \in 1..(FirstUnknown - 1) : ~plOps[j].badParams) =>
               plOut.err = "Unsupported operation"

\* C10: every step whose transform is invoked receives the output of the most
\* recent step whose transform succeeded, or the request's image if there is
\* none; a step whose transform fails with its ignore-failure flag set does
\* not end the pipeline with that failure; a pipeline that returns no error
\* returns the output of the last transform that succeeded, and the request's
\* image when every transform failed with the flag set.
Succeeded(r) == ~plOps[r.pos].fails

\* The image current after the first n invocations.
CurrentAfter(n) ==
    LET done == {j \in 1..n : Succeeded(plOut.ran[j])}
    IN  IF done = {} THEN OriginalImage
        ELSE LET last == CHOOSE j \in done : \A k \in done : k <= j
             IN  Transform(plOut.ran[last].input, plOut.ran[last].pos)

AbortingSteps ==
    {k \in 1..Len(plOps) :
        /\ plOps[k].Name \in OperationNames
        /\ (plOps[k].badParams \/ plOps[k].fails)
        /\ ~plOps[k].IgnoreFailure}

\* The first step that fails with its flag unset, when every step before it
\* is a known operation with well-formed parameters.
FirstAborting ==
    IF /\ Len(plOps) \in 1..MaxPipelineOps
       /\ AbortingSteps # {}
    THEN LET k == CHOOSE j \in AbortingSteps : \A m \in AbortingSteps : j <= m
         IN  IF \A j \in 1..(k - 1) :
                    plOps[j].Name \in OperationNames /\ ~plOps[j].badParams
             THEN k ELSE 0
    ELSE 0

C11_AbortAnnotatedWithPosition ==
    (plServed /\ FirstAborting > 0) =>
        /\ plOut.err # ""
        /\ plOut.image = NoImage
        /\ \A i \in 1..Len(plOut.ran) : plOut.ran[i].pos <= FirstAborting
        /\ plOut.pos = FirstAborting

(***************************************************************************)
(* Error values (error.go)                                                 *)
(***************************************************************************)

NoError                 == [Message |-> "", Code |-> 0]
ErrInvalidURLSignature  == [Message |-> "Invalid URL signature", Code |-> 400]
ErrURLSignatureMismatch == [Message |-> "URL signature mismatch", Code |-> 403]

(***************************************************************************)
(* URL signature (middleware.go, checkURLSignature)                        *)
(***************************************************************************)

\* Number of bytes of a digest (the model's width of sha256.Size).
DigestLen == 2

\* Longest free-form `sign` value that is enumerated.
MaxSignLen == 2

\* The characters of the paths, keys and values, in ASCII order.  "%3D" is
\* the percent-escape of "=".
CharOrder ==
    <<"%3D", "&", "/", "1", "2", "=",
      "a", "b", "c", "d", "e", "f", "g", "h", "i", "j", "k", "l", "m", "n", "o", "p", "q", "r", "s", "t", "u", "v", "w", "x", "y", "z">>

CharCodes ==
    [c \in {CharOrder[i] : i \in 1..Len(CharOrder)} |->
        CHOOSE i \in 1..Len(CharOrder) : CharOrder[i] = c]

CharCode(c) == CharCodes[c]

\* s < t as Go strings.
RECURSIVE StrLess(_, _)
StrLess(s, t) ==
    IF t = <<>> THEN FALSE
    ELSE IF s = <<>> THEN TRUE
    ELSE IF s[1] # t[1] THEN CharCode(s[1]) < CharCode(t[1])
    ELSE StrLess(Tail(s), Tail(t))

\* url.QueryEscape on the characters in use: "=" is escaped.
QueryEscape(s) == [i \in 1..Len(s) |-> IF s[i] = "=" THEN "%3D" ELSE s[i]]

\* url.Values.Get: the value of the key, "" when absent.
QueryGet(q, key) ==
    IF \E kv \in q : kv.k = key THEN (CHOOSE kv \in q : kv.k = key).v ELSE <<>>

\* url.Values.Del
QueryDel(q, key) == {kv \in q : kv.k # key}

\* url.Values.Encode: "k=v" of every key in sorted order, joined by "&".
RECURSIVE QueryEncode(_)
QueryEncode(q) ==
    IF q = {} THEN <<>>
    ELSE LET first == CHOOSE kv \in q : \A o \in q : o = kv \/ StrLess(kv.k, o.k)
             rest  == QueryEncode(q \ {first})
             one   == QueryEscape(first.k) \o <<"=">> \o QueryEscape(first.v)
         IN  IF rest = <<>> THEN one ELSE one \o <<"&">> \o rest

\* A stand-in for HMAC-SHA256: a keyed hash of the message, DigestLen bytes.
RECURSIVE HashFold(_, _)
HashFold(h, msg) ==
    IF msg = <<>> THEN h
    ELSE HashFold((h * 31 + CharCode(msg[1])) % 65536, Tail(msg))

RECURSIVE Pow(_, _)
Pow(b, n) == IF n = 0 THEN 1 ELSE b * Pow(b, n - 1)

HMAC(key, msg) ==
    LET h == HashFold(HashFold(7, key), msg)
    IN  [i \in 1..DigestLen |-> ((h * (i + 2)) \div Pow(4, i - 1)) % 256]

\* The alphabet of base64.RawURLEncoding.
B64Alphabet ==
    <<"A", "B", "C", "D", "E", "F", "G", "H", "I", "J", "K", "L", "M", "N", "O", "P",
      "Q", "R", "S", "T", "U", "V", "W", "X", "Y", "Z", "a", "b", "c", "d", "e", "f",
      "g", "h", "i", "j", "k", "l", "m", "n", "o", "p", "q", "r", "s", "t", "u", "v",
      "w", "x", "y", "z", "0", "1", "2", "3", "4", "5", "6", "7", "8", "9", "-", "_">>

B64Values ==
    [c \in {B64Alphabet[i] : i \in 1..64} |-> CHOOSE i \in 1..64 : B64Alphabet[i] = c]

B64Value(c) == B64Values[c]

\* base64.RawURLEncoding.EncodeToString: 3 bytes give 4 characters, a last
\* group of 1 or 2 bytes gives 2 or 3 characters, no padding.
RECURSIVE B64Encode(_)
B64Encode(b) ==
    IF Len(b) = 0 THEN <<>>
    ELSE IF Len(b) = 1
    THEN <<B64Alphabet[(b[1] \div 4) + 1], B64Alphabet[((b[1] % 4) * 16) + 1]>>
    ELSE IF Len(b) = 2
    THEN <<B64Alphabet[(b[1] \div 4) + 1],
           B64Alphabet[((b[1] % 4) * 16 + b[2] \div 16) + 1],
           B64Alphabet[((b[2] % 16) * 4) + 1]>>
    ELSE <<B64Alphabet[(b[1] \div 4) + 1],
           B64Alphabet[((b[1] % 4) * 16 + b[2] \div 16) + 1],
           B64Alphabet[((b[2] % 16) * 4 + b[3] \div 64) + 1],
           B64Alphabet[(b[3] % 64) + 1]>> \o B64Encode(SubSeq(b, 4, Len(b)))

\* The decoder skips carriage returns and line feeds.
RECURSIVE StripNewlines(_)
StripNewlines(s) ==
    IF s = <<>> THEN <<>>
    ELSE IF s[1] \in {"\r", "\n"} THEN StripNewlines(Tail(s))
    ELSE <<s[1]>> \o StripNewlines(Tail(s))

\* The bytes of the groups of a newline-free string of alphabet characters;
\* the bits left over in a last group of 2 or 3 characters are dropped.
RECURSIVE B64Groups(_)
B64Groups(s) ==
    IF Len(s) = 0 THEN <<>>
    ELSE IF Len(s) = 2
    THEN <<((B64Value(s[1]) - 1) * 64 + (B64Value(s[2]) - 1)) \div 16>>
    ELSE IF Len(s) = 3
    THEN LET n == (B64Value(s[1]) - 1) * 4096 + (B64Value(s[2]) - 1) * 64
                  + (B64Value(s[3]) - 1)
         IN  <<n \div 1024, (n \div 4) % 256>>
    ELSE LET n == (B64Value(s[1]) - 1) * 262144 + (B64Value(s[2]) - 1) * 4096
                  + (B64Value(s[3]) - 1) * 64 + (B64Value(s[4]) - 1)
         IN  <<n \div 65536, (n \div 256) % 256, n % 256>>
             \o B64Groups(SubSeq(s, 5, Len(s)))

\* A decoder that fails on the empty string.
B64DecodeRejectEmpty(s) ==
    LET t == StripNewlines(s)
    IN  IF t = <<>> \/ \E i \in 1..Len(t) : ~\E j \in 1..64 : B64Alphabet[j] = t[i]
        THEN [err |-> TRUE, bytes |-> <<>>]
        ELSE IF Len(t) % 4 = 1 THEN [err |-> TRUE, bytes |-> <<>>]
        ELSE [err |-> FALSE, bytes |-> B64Groups(t)]

\* base64.RawURLEncoding.DecodeString: fails on a character outside the
\* alphabet ("=" included) and on a last group of one character.
B64Decode(s) ==
    LET t == StripNewlines(s)
    IN  IF \E i \in 1..Len(t) : ~\E j \in 1..64 : B64Alphabet[j] = t[i]
        THEN [err |-> TRUE, bytes |-> <<>>]
        ELSE IF Len(t) % 4 = 1 THEN [err |-> TRUE, bytes |-> <<>>]
        ELSE [err |-> FALSE, bytes |-> B64Groups(t)]

\* hmac.Equal
HmacEqual(a, b) == a = b

Sign == <<"s", "i", "g", "n">>

\* What checkURLSignature's HMAC is computed over.
SigningString(path, query) == path \o QueryEncode(QueryDel(query, Sign))

\* checkURLSignature that answers every bad signature with the mismatch error.
checkURLSignatureOneError(key, req) ==
    LET sign         == QueryGet(req.Query, Sign)
        expectedSign == HMAC(key, SigningString(req.Path, req.Query))
        urlSign      == B64Decode(sign)
    IN  IF urlSign.err \/ ~HmacEqual(urlSign.bytes, expectedSign)
        THEN [forward |-> FALSE, err |-> ErrURLSignatureMismatch]
        ELSE [forward |-> TRUE, err |-> NoError]

\* checkURLSignature: forward to the next handler, or the error replied.
checkURLSignature(key, req) ==
    LET sign         == QueryGet(req.Query, Sign)
        expectedSign == HMAC(key, SigningString(req.Path, req.Query))
        urlSign      == B64Decode(sign)
    IN  IF urlSign.err THEN [forward |-> FALSE, err |-> ErrInvalidURLSignature]
        ELSE IF ~HmacEqual(urlSign.bytes, expectedSign)
        THEN [forward |-> FALSE, err |-> ErrURLSignatureMismatch]
        ELSE [forward |-> TRUE, err |-> NoError]

\* The signing keys, paths and query parameters of the requests.
SigKeys == {<<"a">>, <<"b">>}
SigPaths == {<<"/", "a">>, <<"/", "b">>, <<"/", "a", "a">>}
SigParams ==
    {{}, {[k |-> <<"a">>, v |-> <<"1">>]},
     {[k |-> <<"b">>, v |-> <<"2">>], [k |-> <<"a">>, v |-> <<"1">>]},
     {[k |-> <<"b">>, v |-> <<"a", "=", "1">>]},
     {[k |-> <<>>, v |-> <<"1">>]},
     {[k |-> <<"c">>, v |-> <<"1">>], [k |-> <<"b">>, v |-> <<"2">>],
      [k |-> <<"a">>, v |-> <<"1">>]}}

\* The signature a client holding `key` computes for a path and parameters.
ClientSign(key, path, params) == B64Encode(HMAC(key, SigningString(path, params)))

\* s with its i-th character replaced by c.
ReplaceAt(s, i, c) == [j \in 1..Len(s) |-> IF j = i THEN c ELSE s[j]]

\* The `sign` values tried on a request: none, the right one, the right one
\* with one character replaced, cut short or extended, the ones for another
\* key, path or parameters, and short free-form strings.
SignValues(key, path, params) ==
    LET good == ClientSign(key, path, params)
    IN  {<<>>, good}
        \cup {ReplaceAt(good, i, c) :
                 i \in 1..Len(good), c \in {"A", "B", "g", "_", "=", "+", "\n"}}
        \cup {SubSeq(good, 1, Len(good) - 1), Append(good, "A"), Append(good, "\n")}
        \cup {ClientSign(k2, p2, q2) : k2 \in SigKeys, p2 \in SigPaths, q2 \in SigParams}
        \cup SeqsUpTo({"A", "_", "=", "\n"}, MaxSignLen)

SigIdleOut == [forward |-> FALSE, err |-> NoError]

\* The signature check when no request is given to it.
SigIdle ==
    /\ sigKey = <<>>
    /\ sigReq = [Path |-> <<>>, Query |-> {}]
    /\ sigOut = SigIdleOut
    /\ sigServed = FALSE

\* A request reaches checkURLSignature.
SigRequest ==
    /\ ~sigServed
    /\ sigServed' = TRUE
    /\ sigOut' = checkURLSignature(sigKey, sigReq)
    /\ UNCHANGED <<sigKey, sigReq>>
    /\ UNCHANGED <<fsVars, httpVars, plVars, chVars, rlVars, hdVars, bdVars, rgVars, opVars, crVars>>

\* C4: checkURLSignature accepts and forwards a `sign` value equal to the
\* URL-safe unpadded base64 of the HMAC under the key of the path followed by
\* the sorted query encoding without `sign`; a `sign` value that decodes to
\* bytes other than that digest (in particular the right value with a
\* character before the last replaced by another alphabet character) is
\* rejected with the integrity error, URL signature mismatch 403; a `sign`
\* value that is not valid base64 is rejected with the format error, Invalid
\* URL signature 400.
IsB64Char(c) == \E j \in 1..64 : B64Alphabet[j] = c

ValidRawURLBase64(s) ==
    /\ \A i \in 1..Len(s) : IsB64Char(s[i]) \/ s[i] \in {"\r", "\n"}
    /\ Cardinality({i \in 1..Len(s) : IsB64Char(s[i])}) % 4 # 1

SigPresented == QueryGet(sigReq.Query, Sign)

SigDigest ==
    HMAC(sigKey, sigReq.Path \o QueryEncode({kv \in sigReq.Query : kv.k # Sign}))

SigFlipped ==
    /\ Len(SigPresented) = Len(B64Encode(SigDigest))
    /\ \A i \in 1..Len(SigPresented) : IsB64Char(SigPresented[i])
    /\ \E i \in 1..(Len(SigPresented) - 1) : SigPresented[i] # B64Encode(SigDigest)[i]

C36_SigningStringInjective ==
    (sigServed /\ sigOut.forward) =>
        \A path \in SigPaths, params \in SigParams :
            (/\ SigPresented = ClientSign(sigKey, path, params)
             /\ SigningString(path, params) = SigningString(sigReq.Path, sigReq.Query)) =>
                /\ path = sigReq.Path
                /\ params = QueryDel(sigReq.Query, Sign)

\* C37: with signature enforcement, a request that carries no `sign`
\* parameter, or an empty one, is rejected, and with the integrity error
\* (URL signature mismatch, 403), not with the format error.
C37_MissingSignIsMismatch ==
    (sigServed /\ SigPresented = <<>>) =>
        /\ sigOut = [forward |-> FALSE, err |-> ErrURLSignatureMismatch]
        /\ sigOut.err.Code = 403
        /\ B64Decode(<<>>) = [err |-> FALSE, bytes |-> <<>>]

\* A request without the parameter, and one with `sign=`.
C37_Witness ==
    /\ sigServed /\ ~\E kv \in sigReq.Query : kv.k = Sign
    /\ sigOut.err = ErrURLSignatureMismatch

C37_WitnessEmpty ==
    /\ sigServed /\ [k |-> Sign, v |-> <<>>] \in sigReq.Query
    /\ sigOut.err = ErrURLSignatureMismatch

C4_WitnessAccepted ==
    /\ sigServed
    /\ SigPresented = B64Encode(SigDigest)
    /\ sigOut.forward

C4_WitnessFormat ==
    /\ sigServed
    /\ ~ValidRawURLBase64(SigPresented)
    /\ sigOut.err.Code = 400

\* The decoder ignores the unused low bits of the last character and
\* newlines, so this does not hold: values other than the issued one are
\* accepted too.
C4_OnlyIssuedValueAccepted ==
    (sigServed /\ sigOut.forward) => SigPresented = B64Encode(SigDigest)

(***************************************************************************)
(* Rate limiter (middleware.go, throttleRequests)                          *)
(***************************************************************************)

\* Clock ticks per second (the model's time.Second).
Second == 2

\* The clock stops here.
MaxTime == 4

ErrMethodNotAllowed    == [Message |-> "HTTP method not allowed", Code |-> 405]
ErrGetMethodNotAllowed == [Message |-> "GET method not allowed", Code |-> 405]
ErrInvalidAPIKey       == [Message |-> "Invalid or missing API key", Code |-> 401]
ErrNotImplemented      == [Message |-> "Not implemented endpoint", Code |-> 501]
ErrNotFound            == [Message |-> "Not found", Code |-> 404]
ErrResolutionTooBig    == [Message |-> "Image resolution is too big", Code |-> 422]
ErrEmptyBody           == [Message |-> "Empty or unreadable image", Code |-> 400]
ErrLimitExceeded       == [Message |-> "limit exceeded", Code |-> 429]
ErrThrottle            == [Message |-> "throttle error", Code |-> 500]

\* Error.HTTPCode
HTTPCode(e) == IF e.Code >= 400 /\ e.Code <= 511 THEN e.Code ELSE 503

\* sendError: a JSON body {"error", "status"} with the status given.
sendError(code, message) ==
    [Code |-> code, err |-> [Message |-> message, Code |-> code],
     placeholder |-> FALSE, body |-> "json error status", errorHeader |-> NoError]

\* How the rendering of the placeholder ends: parseInt fails on the `width`
\* or on the `height` parameter of the request, bimg.Resize fails, or the
\* placeholder is resized.
RenderOutcomes == {"ok", "badWidth", "badHeight", "resizeError"}

\* replyWithPlaceholder with the status always the error's own.
replyWithPlaceholderOwnStatus(err, o, render) ==
    IF render # "ok" THEN sendError(400, render)
    ELSE [Code |-> HTTPCode(err), err |-> err, placeholder |-> TRUE,
          body |-> "placeholder image", errorHeader |-> err]

\* replyWithPlaceholder: the placeholder image, the error in the Error
\* header, the status the configured one if any.
replyWithPlaceholder(err, o, render) ==
    IF render # "ok" THEN sendError(400, render)
    ELSE [Code |-> IF o.PlaceholderStatus # 0 THEN o.PlaceholderStatus
                   ELSE HTTPCode(err),
          err |-> err, placeholder |-> TRUE,
          body |-> "placeholder image", errorHeader |-> err]

\* ErrorReply: the JSON error {"message", "status"}, or the placeholder.
ErrorReply(err, o, render) ==
    IF o.EnablePlaceholder \/ o.Placeholder # <<>>
    THEN replyWithPlaceholder(err, o, render)
    ELSE [Code |-> HTTPCode(err), err |-> err, placeholder |-> FALSE,
          body |-> "json message status", errorHeader |-> NoError]

\* http.Error: a text/plain body with the status given.
httpError(err) ==
    [Code |-> err.Code, err |-> err, placeholder |-> FALSE,
     body |-> "text", errorHeader |-> NoError]

\* throttled.PerSec: the emission interval of n requests per second.
PerSec(n) == Second \div n

\* The store's value of a key, -1 when it has none.
StoreGet(store, key) == IF key \in DOMAIN store THEN store[key] ELSE -1

StoreSet(store, key, v) ==
    [k \in DOMAIN store \cup {key} |-> IF k = key THEN v ELSE store[k]]

\* A limiter without the slot the rate itself grants: at most `burst` at once.
RateLimitBurstOnly(tatVal, now, period, burst) ==
    LET tat    == IF tatVal = -1 THEN now ELSE tatVal
        newTat == IF now > tat THEN now + period ELSE tat + period
    IN  IF now < newTat - period * burst
        THEN [limited |-> TRUE, tat |-> tatVal, fresh |-> FALSE]
        ELSE [limited |-> FALSE, tat |-> newTat, fresh |-> tatVal = -1 \/ now > tat]

\* GCRARateLimiter.RateLimit(key, 1): the generic cell rate algorithm on the
\* key's theoretical arrival time.  fresh: the key owed nothing on arrival.
RateLimit(tatVal, now, period, burst) ==
    LET delayVariationTolerance == period * (burst + 1)
        tat     == IF tatVal = -1 THEN now ELSE tatVal
        newTat  == IF now > tat THEN now + period ELSE tat + period
        allowAt == newTat - delayVariationTolerance
    IN  IF now < allowAt
        THEN [limited |-> TRUE, tat |-> tatVal, fresh |-> FALSE]
        ELSE [limited |-> FALSE, tat |-> newTat, fresh |-> tatVal = -1 \/ now > tat]

\* A key that also varies by the client's address.
VaryByMethodAndAddr(req) == <<req.Method, req.RemoteAddr>>

\* VaryBy{Method: true}.Key
VaryByKey(req) == <<req.Method>>

\* The handler throttleRequests returns, for the limiter of one Middleware
\* call: the answer, and the store afterwards.
throttleRequests(o, limiter, req, now, store) ==
    IF o.Burst < 0 \/ PerSec(o.Concurrency) <= 0
    THEN [forward |-> FALSE, err |-> ErrThrottle, store |-> store, fresh |-> FALSE]
    ELSE LET key == <<limiter, VaryByKey(req)>>
             rl  == RateLimit(StoreGet(store, key), now, PerSec(o.Concurrency), o.Burst)
         IN  IF rl.limited
             THEN [forward |-> FALSE, err |-> ErrLimitExceeded, store |-> store,
                   fresh |-> FALSE]
             ELSE [forward |-> TRUE, err |-> NoError,
                   store |-> StoreSet(store, key, rl.tat), fresh |-> rl.fresh]

(***************************************************************************)
(* Middleware chain (middleware.go, server.go)                             *)
(***************************************************************************)

\* How many times the request is sent.
MaxServe == 2

RootPath   == <<"/">>
HealthPath == <<"/", "h", "e", "a", "l", "t", "h">>
FormPath   == <<"/", "f", "o", "r", "m">>
ResizePath == <<"/", "r", "e", "s", "i", "z", "e">>
CropPath   == <<"/", "c", "r", "o", "p">>
KeyParam   == <<"k", "e", "y">>

\* The routes NewServerMux registers with ImageMiddleware.
ImageRoutes ==
    {<<"/", "r", "e", "s", "i", "z", "e">>,
     <<"/", "f", "i", "t">>,
     <<"/", "e", "n", "l", "a", "r", "g", "e">>,
     <<"/", "e", "x", "t", "r", "a", "c", "t">>,
     <<"/", "c", "r", "o", "p">>,
     <<"/", "s", "m", "a", "r", "t", "c", "r", "o", "p">>,
     <<"/", "r", "o", "t", "a", "t", "e">>,
     <<"/", "a", "u", "t", "o", "r", "o", "t", "a", "t", "e">>,
     <<"/", "f", "l", "i", "p">>,
     <<"/", "f", "l", "o", "p">>,
     <<"/", "t", "h", "u", "m", "b", "n", "a", "i", "l">>,
     <<"/", "z", "o", "o", "m">>,
     <<"/", "c", "o", "n", "v", "e", "r", "t">>,
     <<"/", "w", "a", "t", "e", "r", "m", "a", "r", "k">>,
     <<"/", "w", "a", "t", "e", "r", "m", "a", "r", "k", "i", "m", "a", "g", "e">>,
     <<"/", "i", "n", "f", "o">>,
     <<"/", "b", "l", "u", "r">>,
     <<"/", "p", "i", "p", "e", "l", "i", "n", "e">>}

\* http.ServeMux: the pattern that serves a path; "/" takes what no other does.
RoutePattern(path) ==
    IF path \in ImageRoutes \cup {HealthPath, FormPath} THEN path ELSE RootPath

isPublicPath(path) == path \in {RootPath, HealthPath, FormPath}

\* The part of the path after its last "/".
LastSegment(path) ==
    LET slashes == {i \in 1..Len(path) : path[i] = "/"}
        last    == IF slashes = {} THEN 0
                   ELSE CHOOSE i \in slashes : \A j \in slashes : j <= i
    IN  SubSeq(path, last + 1, Len(path))

\* Endpoints.IsValid: the endpoint is not on the deny-list.
EndpointsIsValid(endpoints, req) ==
    ~\E i \in 1..Len(endpoints) : LastSegment(req.Path) = endpoints[i]

\* getCacheControl with an s-maxage that is not the ttl.
getCacheControlNoSharedAge(ttl) ==
    IF ttl = 0
    THEN [directives |-> {"private", "no-cache", "no-store", "must-revalidate"},
          sMaxAge |-> -1, maxAge |-> -1]
    ELSE [directives |-> {"public", "no-transform"}, sMaxAge |-> 0, maxAge |-> ttl]

\* getCacheControl: the directives of the value, and its s-maxage and
\* max-age (-1 when the value has none).
getCacheControl(ttl) ==
    IF ttl = 0
    THEN [directives |-> {"private", "no-cache", "no-store", "must-revalidate"},
          sMaxAge |-> -1, maxAge |-> -1]
    ELSE [directives |-> {"public", "no-transform"}, sMaxAge |-> ttl, maxAge |-> ttl]

\* A handler wrapped by another: the outer one runs first.
Wrap(name, next) == <<name>> \o next

\* Middleware with the rate limit outside authorize.
MiddlewareThrottleOutside(fn, o) ==
    LET n0 == <<fn>>
        n1 == IF Len(o.Endpoints) > 0 THEN Wrap("validateEndpoints", n0) ELSE n0
        n2 == IF o.CORS THEN Wrap("CORS", n1) ELSE n1
        n3 == IF o.APIKey # <<>> THEN Wrap("authorize", n2) ELSE n2
        n4 == IF o.Concurrency > 0 THEN Wrap("throttleRequests", n3) ELSE n3
        n5 == IF o.HTTPCacheTTL >= 0 THEN Wrap("addCacheHeaders", n4) ELSE n4
    IN  Wrap("validateRequest", Wrap("addDefaultHeaders", n5))

\* Middleware with authorize outside addCacheHeaders.
MiddlewareAuthorizeOutside(fn, o) ==
    LET n0 == <<fn>>
        n1 == IF Len(o.Endpoints) > 0 THEN Wrap("validateEndpoints", n0) ELSE n0
        n2 == IF o.Concurrency > 0 THEN Wrap("throttleRequests", n1) ELSE n1
        n3 == IF o.CORS THEN Wrap("CORS", n2) ELSE n2
        n4 == IF o.HTTPCacheTTL >= 0 THEN Wrap("addCacheHeaders", n3) ELSE n3
        n5 == IF o.APIKey # <<>> THEN Wrap("authorize", n4) ELSE n4
    IN  Wrap("validateRequest", Wrap("addDefaultHeaders", n5))

\* Middleware: the chain around fn, outermost handler first.
Middleware(fn, o) ==
    LET n0 == <<fn>>
        n1 == IF Len(o.Endpoints) > 0 THEN Wrap("validateEndpoints", n0) ELSE n0
        n2 == IF o.Concurrency > 0 THEN Wrap("throttleRequests", n1) ELSE n1
        n3 == IF o.CORS THEN Wrap("CORS", n2) ELSE n2
        n4 == IF o.APIKey # <<>> THEN Wrap("authorize", n3) ELSE n3
        n5 == IF o.HTTPCacheTTL >= 0 THEN Wrap("addCacheHeaders", n4) ELSE n4
    IN  Wrap("validateRequest", Wrap("addDefaultHeaders", n5))

\* ImageMiddleware with the signature check inside validateImageRequest.
ImageMiddlewareSignatureInside(o) ==
    LET inner == Middleware("createImageHandler", o)
    IN  IF o.EnableURLSignature
        THEN Wrap("validateImageRequest", Wrap("checkURLSignature", inner))
        ELSE Wrap("validateImageRequest", inner)

\* ImageMiddleware: the chain of an image route.
ImageMiddleware(o) ==
    LET handler == Wrap("validateImageRequest", Middleware("createImageHandler", o))
    IN  IF o.EnableURLSignature THEN Wrap("checkURLSignature", handler) ELSE handler

\* NewServerMux: the chain registered for a route.
NewServerMux(o, route) ==
    IF route \in ImageRoutes THEN ImageMiddleware(o)
    ELSE IF route = HealthPath THEN Middleware("healthController", o)
    ELSE IF route = FormPath THEN Middleware("formController", o)
    ELSE Middleware("indexController", o)

\* What happens inside createImageHandler.
HandlerOutcomes == {"ok", "sourceError", "emptyBody", "paramsError", "operationError"}

OkResponse ==
    [Code |-> 200, err |-> NoError, placeholder |-> FALSE, body |-> "result",
     errorHeader |-> NoError]

\* The error createImageHandler reports for an outcome, NoError for none.
handlerError(h) ==
    CASE h = "sourceError" -> [Message |-> "Error getting image", Code |-> 400]
      [] h = "emptyBody" -> ErrEmptyBody
      [] h = "paramsError" -> [Message |-> "Error parsing parameters", Code |-> 400]
      [] h = "operationError" -> [Message |-> "Error processing image", Code |-> 400]
      [] OTHER -> NoError

\* createImageHandler: the work done, the error reported and the response.
createImageHandler(o, req, outcome) ==
    LET e == handlerError(outcome.handler)
    IN  [work |-> IF outcome.handler \in {"ok", "operationError"}
                  THEN <<"getImage", "operation">> ELSE <<"getImage">>,
         reported |-> e,
         resp |-> IF e = NoError THEN OkResponse ELSE ErrorReply(e, o, outcome.render)]

\* indexController
indexController(req) ==
    IF req.Path # RootPath
    THEN ErrorReply(ErrNotFound,
                    [EnablePlaceholder |-> FALSE, Placeholder |-> <<>>,
                     PlaceholderStatus |-> 0], "ok")
    ELSE OkResponse

\* authorize accepting the key of the header or that of the parameter.
authorizeEither(o, req) ==
    req.Header = o.APIKey \/ QueryGet(req.Query, KeyParam) = o.APIKey

\* authorize: the key of the API-Key header, else of the `key` parameter.
authorize(o, req) ==
    LET key == IF req.Header # <<>> THEN req.Header ELSE QueryGet(req.Query, KeyParam)
    IN  key = o.APIKey

\* validateImageRequest asking for the URL source alone.
validateImageRequestURLOnly(o, req) ==
    IF req.Method = "GET"
    THEN IF isPublicPath(req.Path) THEN TRUE ELSE o.EnableURLSource
    ELSE TRUE

\* validateImageRequest: GET needs a mount or the URL source.
validateImageRequest(o, req) ==
    IF req.Method = "GET"
    THEN IF isPublicPath(req.Path) THEN TRUE
         ELSE ~(o.Mount = <<>> /\ ~o.EnableURLSource)
    ELSE TRUE

\* A handler of the chain runs: st is [trace, work, hdrs, resp, store].
RECURSIVE ServeHTTP(_, _, _, _, _, _, _)
ServeHTTP(chain, o, req, route, outcome, now, st) ==
    LET name == Head(chain)
        st1  == [st EXCEPT !.trace = Append(@, name)]
        next == Tail(chain)
        Reply(err) == [st1 EXCEPT !.resp = ErrorReply(err, o, outcome.render)]
    IN  CASE name = "checkURLSignature" ->
               LET r == checkURLSignature(o.URLSignatureKey, req)
               IN  IF r.forward THEN ServeHTTP(next, o, req, route, outcome, now, st1)
                   ELSE Reply(r.err)
          [] name = "validateImageRequest" ->
               IF validateImageRequest(o, req)
               THEN ServeHTTP(next, o, req, route, outcome, now, st1)
               ELSE Reply(ErrGetMethodNotAllowed)
          [] name = "validateRequest" ->
               IF req.Method # "GET" /\ req.Method # "POST"
               THEN Reply(ErrMethodNotAllowed)
               ELSE ServeHTTP(next, o, req, route, outcome, now, st1)
          [] name = "addDefaultHeaders" ->
               ServeHTTP(next, o, req, route, outcome, now,
                         [st1 EXCEPT !.hdrs = @ \cup {<<"Server", "imaginary">>}])
          [] name = "addCacheHeaders" ->
               IF req.Method = "GET" /\ ~isPublicPath(req.Path)
               THEN ServeHTTP(next, o, req, route, outcome, now,
                              [st1 EXCEPT !.hdrs = @ \cup
                                  {<<"Expires", now + o.HTTPCacheTTL * Second>>,
                                   <<"Cache-Control", getCacheControl(o.HTTPCacheTTL)>>}])
               ELSE ServeHTTP(next, o, req, route, outcome, now, st1)
          [] name = "authorize" ->
               IF authorize(o, req)
               THEN ServeHTTP(next, o, req, route, outcome, now, st1)
               ELSE Reply(ErrInvalidAPIKey)
          [] name = "CORS" ->
               IF req.Method = "OPTIONS"
               THEN [st1 EXCEPT !.resp = [OkResponse EXCEPT !.Code = 204]]
               ELSE ServeHTTP(next, o, req, route, outcome, now,
                              [st1 EXCEPT !.hdrs = @ \cup {<<"Vary", "Origin">>}])
          [] name = "throttleRequests" ->
               LET r == throttleRequests(o, route, req, now, st.store)
               IN  IF r.forward
                   THEN ServeHTTP(next, o, req, route, outcome, now,
                                  [st1 EXCEPT !.store = r.store])
                   ELSE [st1 EXCEPT !.resp = httpError(r.err)]
          [] name = "validateEndpoints" ->
               IF EndpointsIsValid(o.Endpoints, req)
               THEN ServeHTTP(next, o, req, route, outcome, now, st1)
               ELSE Reply(ErrNotImplemented)
          [] name = "createImageHandler" ->
               LET h == createImageHandler(o, req, outcome)
               IN  [st1 EXCEPT !.work = h.work, !.resp = h.resp]
          [] name = "indexController" -> [st1 EXCEPT !.resp = indexController(req)]
          [] OTHER -> [st1 EXCEPT !.resp = OkResponse]

\* The options, all features off.
OptionsOff ==
    [EnableURLSignature |-> FALSE, URLSignatureKey |-> <<>>, APIKey |-> <<>>,
     CORS |-> FALSE, Concurrency |-> 0, Burst |-> 0, HTTPCacheTTL |-> -1,
     Endpoints |-> <<>>, Mount |-> <<>>, EnableURLSource |-> FALSE,
     EnablePlaceholder |-> FALSE, Placeholder |-> <<>>, PlaceholderStatus |-> 0]

ChainOptions ==
    {o \in [EnableURLSignature : BOOLEAN, URLSignatureKey : {<<"a">>},
             APIKey : {<<>>, <<"k">>}, CORS : BOOLEAN, Concurrency : {0, 1},
             Burst : {0}, HTTPCacheTTL : {-1, 0, 60},
             Endpoints : {<<>>, <<<<"c", "r", "o", "p">>>>},
             Mount : {<<>>, <<"/", "a">>}, EnableURLSource : BOOLEAN,
             EnablePlaceholder : {FALSE}, Placeholder : {<<>>},
             PlaceholderStatus : {0}] :
        o.Mount = <<>> \/ ~o.EnableURLSource}

\* The requests sent under options o.
ChainRequests(o) ==
    LET keys  == IF o.APIKey = <<>> THEN {[h |-> <<>>, q |-> {}]}
                 ELSE {[h |-> <<>>, q |-> {}], [h |-> o.APIKey, q |-> {}],
                       [h |-> <<"x">>, q |-> {[k |-> KeyParam, v |-> o.APIKey]}],
                       [h |-> <<>>, q |-> {[k |-> KeyParam, v |-> o.APIKey]}]}
        Signs(path, params) ==
            IF ~o.EnableURLSignature THEN {<<>>}
            ELSE LET good == ClientSign(o.URLSignatureKey, path, params)
                 IN  {<<>>, good, ReplaceAt(good, 1, IF good[1] = "A" THEN "B" ELSE "A"),
                      ReplaceAt(good, 1, "=")}
    IN  UNION {{[Method |-> m, Path |-> path, Header |-> key.h, RemoteAddr |-> "c1",
                 Query |-> IF sign = <<>> THEN key.q
                           ELSE key.q \cup {[k |-> Sign, v |-> sign]}] :
                    m \in {"GET", "POST", "PUT"}, sign \in Signs(path, key.q)} :
                  path \in {RootPath, ResizePath, CropPath}, key \in keys}

NoRequest == [Method |-> "", Path |-> <<>>, Header |-> <<>>, RemoteAddr |-> "", Query |-> {}]
NoResponse ==
    [Code |-> 0, err |-> NoError, placeholder |-> FALSE, body |-> "", errorHeader |-> NoError]
NoDecision ==
    [route |-> <<>>, Method |-> "", RemoteAddr |-> "", limited |-> FALSE,
     deniedBefore |-> {}, usedBefore |-> 0, start |-> 0, at |-> 0]

ChainIdle ==
    /\ chOpts = OptionsOff
    /\ chReq = NoRequest
    /\ chTrace = [trace |-> <<>>, work |-> <<>>, hdrs |-> {}]
    /\ chResp = NoResponse
    /\ chServed = 0

RateIdle ==
    /\ rlNow = 0
    /\ rlStore = <<>>
    /\ rlWindow = <<>>
    /\ rlLast = NoDecision
    /\ rlDenied = {}
    /\ rlTraffic = [reqs |-> {}, until |-> 0]

\* The request is served by the chain of its route.
ChainRequest ==
    \E outcome \in [handler : HandlerOutcomes, render : {"ok"}] :
        \E st \in {ServeHTTP(NewServerMux(chOpts, RoutePattern(chReq.Path)), chOpts, chReq,
                              RoutePattern(chReq.Path), outcome, rlNow,
                              [trace |-> <<>>, work |-> <<>>, hdrs |-> {},
                               resp |-> NoResponse, store |-> rlStore])} :
            /\ chServed < MaxServe
            /\ chServed' = chServed + 1
            /\ chTrace' = [trace |-> st.trace, work |-> st.work, hdrs |-> st.hdrs]
            /\ chResp' = st.resp
            /\ rlStore' = st.store
            /\ UNCHANGED <<chOpts, chReq>>
            /\ UNCHANGED <<rlNow, rlWindow, rlLast, rlDenied, rlTraffic>>
            /\ UNCHANGED <<fsVars, httpVars, plVars, sigVars, hdVars, bdVars, rgVars, opVars, crVars>>

\* C3: with URL-signature enforcement enabled, for every request to an image
\* endpoint checkURLSignature runs first, before validateImageRequest and
\* before every wrapper of the common chain; a request whose `sign` value
\* does not decode or does not match is answered with the signature error
\* and nothing else runs: no inner wrapper, no source fetch, no transform.
ChSignFails ==
    LET sign   == QueryGet(chReq.Query, Sign)
        digest == HMAC(chOpts.URLSignatureKey,
                       chReq.Path \o QueryEncode({kv \in chReq.Query : kv.k # Sign}))
    IN  ~ValidRawURLBase64(sign) \/ B64Decode(sign).bytes # digest

C3_SignatureCheckedFirst ==
    (chServed > 0 /\ chOpts.EnableURLSignature /\ chReq.Path \in ImageRoutes) =>
        /\ chTrace.trace[1] = "checkURLSignature"
        /\ \A i \in 2..Len(chTrace.trace) : chTrace.trace[i] # "checkURLSignature"
        /\ ChSignFails =>
             /\ chTrace = [trace |-> <<"checkURLSignature">>, work |-> <<>>, hdrs |-> {}]
             /\ chResp.err \in {ErrInvalidURLSignature, ErrURLSignatureMismatch}
             /\ chResp.Code = chResp.err.Code
             /\ rlStore = <<>>

C3_Witness ==
    /\ chServed > 0
    /\ chOpts.EnableURLSignature
    /\ chReq.Path \in ImageRoutes
    /\ chReq.Method = "GET"
    /\ chOpts.Concurrency > 0
    /\ ChSignFails
    /\ chResp.err = ErrURLSignatureMismatch

C3_WitnessForwarded ==
    /\ chServed > 0
    /\ chOpts.EnableURLSignature
    /\ chReq.Path \in ImageRoutes
    /\ ~ChSignFails
    /\ chTrace.work = <<"getImage", "operation">>

\* C5: in a chain built by Middleware the enabled wrappers see the request
\* in the order validateRequest, addDefaultHeaders, addCacheHeaders (ttl >=
\* 0), authorize (API key set), CORS (enabled), rate limit (concurrency > 0),
\* validateEndpoints (deny-list non-empty), terminal handler; the terminal
\* handler runs only after every enabled wrapper, and after a wrapper that
\* rejects no later one runs.
WrapperOrder ==
    <<"validateRequest", "addDefaultHeaders", "addCacheHeaders", "authorize", "CORS",
      "throttleRequests", "validateEndpoints">>

TerminalHandlers ==
    {"createImageHandler", "indexController", "healthController", "formController"}

ExpectedChain ==
    LET Enabled(n) ==
            CASE n = "addCacheHeaders"   -> chOpts.HTTPCacheTTL >= 0
              [] n = "authorize"         -> chOpts.APIKey # <<>>
              [] n = "CORS"              -> chOpts.CORS
              [] n = "throttleRequests"  -> chOpts.Concurrency > 0
              [] n = "validateEndpoints" -> Len(chOpts.Endpoints) > 0
              [] OTHER                   -> TRUE
    IN  SelectSeq(WrapperOrder, Enabled)

\* The part of the trace that is the chain built by Middleware.
MiddlewareTrace ==
    LET Inner(n) == n \notin {"checkURLSignature", "validateImageRequest"}
    IN  SelectSeq(chTrace.trace, Inner)

RejectionOf(n) ==
    CASE n = "validateRequest"   -> ErrMethodNotAllowed
      [] n = "authorize"         -> ErrInvalidAPIKey
      [] n = "throttleRequests"  -> ErrLimitExceeded
      [] n = "validateEndpoints" -> ErrNotImplemented
      [] OTHER                   -> NoError

C5_FixedOrder ==
    (chServed > 0 /\ MiddlewareTrace # <<>>) =>
        LET mw   == MiddlewareTrace
            last == mw[Len(mw)]
        IN  IF last \in TerminalHandlers
            THEN /\ SubSeq(mw, 1, Len(mw) - 1) = ExpectedChain
                 /\ chResp.err \notin {ErrMethodNotAllowed, ErrInvalidAPIKey,
                                       ErrLimitExceeded, ErrNotImplemented}
            ELSE /\ Len(mw) <= Len(ExpectedChain)
                 /\ mw = SubSeq(ExpectedChain, 1, Len(mw))
                 /\ chResp.err = RejectionOf(last)
                 /\ chResp.err # NoError
                 /\ chTrace.work = <<>>

C5_Witness ==
    /\ chServed > 0
    /\ MiddlewareTrace = WrapperOrder \o <<"createImageHandler">>

C5_WitnessRejected ==
    /\ chServed > 0
    /\ chOpts.Endpoints # <<>>
    /\ chResp.err = ErrLimitExceeded
    /\ MiddlewareTrace = SubSeq(WrapperOrder, 1, 6)

\* C18: every error response, written by any layer of the chain (the rate
\* limiter included) or by the handler, is the JSON body with the error's
\* message and status, or, in placeholder mode, the fallback image with the
\* Error header carrying that error; no other form reaches the writer.
C18_ErrorsAreStructured ==
    (chServed > 0 /\ chResp.Code >= 400) =>
        \/ chResp.body = "json message status" /\ chResp.Code = HTTPCode(chResp.err)
        \/ /\ chOpts.EnablePlaceholder \/ chOpts.Placeholder # <<>>
           /\ chResp.body = "placeholder image" /\ chResp.errorHeader = chResp.err

\* The position of a handler in the trace of the request, 0 if it did not run.
Pos(n) ==
    IF \E i \in 1..Len(chTrace.trace) : chTrace.trace[i] = n
    THEN CHOOSE i \in 1..Len(chTrace.trace) : chTrace.trace[i] = n
    ELSE 0

\* The handler ran and called the next one; the handler ran and was the last.
Forwarded(n) == Pos(n) > 0 /\ Pos(n) < Len(chTrace.trace)
Stopped(n) == Pos(n) > 0 /\ Pos(n) = Len(chTrace.trace)

\* C23: a POST or a PUT request to an image endpoint passes the method
\* validation of validateRequest (and then takes its image from the body).
C23_PostAndPutPassValidation ==
    (/\ chServed > 0 /\ chReq.Method \in {"POST", "PUT"}
     /\ chReq.Path \in ImageRoutes /\ Pos("validateRequest") > 0) =>
        /\ Forwarded("validateRequest")
        /\ chResp.err # ErrMethodNotAllowed

\* C24: validateImageRequest forwards every GET on a public path; a GET on
\* another path it forwards if and only if a filesystem mount or the URL
\* source is enabled, and otherwise it answers 'GET method not allowed' and
\* nothing inside it runs; every request of another method is forwarded.
C24_GetNeedsASource ==
    (chServed > 0 /\ Pos("validateImageRequest") > 0) =>
        /\ (chReq.Method = "GET" /\ chReq.Path \in {RootPath, HealthPath, FormPath}) =>
               Forwarded("validateImageRequest")
        /\ (chReq.Method = "GET" /\ chReq.Path \notin {RootPath, HealthPath, FormPath}) =>
               (Forwarded("validateImageRequest") <=>
                    (chOpts.Mount # <<>> \/ chOpts.EnableURLSource))
        /\ chReq.Method # "GET" => Forwarded("validateImageRequest")
        /\ Stopped("validateImageRequest") =>
               /\ chResp.err = ErrGetMethodNotAllowed /\ chResp.Code = 405
               /\ chTrace.work = <<>>

\* A GET to an image route refused for want of a source, and one forwarded
\* because a mount is configured.
C24_Witness ==
    /\ chServed > 0 /\ chReq.Method = "GET" /\ chReq.Path = ResizePath
    /\ chOpts.Mount = <<>> /\ ~chOpts.EnableURLSource
    /\ Stopped("validateImageRequest") /\ chResp.err = ErrGetMethodNotAllowed

C24_WitnessMount ==
    /\ chServed > 0 /\ chReq.Method = "GET" /\ chReq.Path = ResizePath
    /\ chOpts.Mount # <<>> /\ ~chOpts.EnableURLSource
    /\ Forwarded("validateImageRequest")

\* The key the request supplies: that of the API-Key header when the header
\* is present, else that of the `key` parameter.
SuppliedKey ==
    IF chReq.Header # <<>> THEN chReq.Header ELSE QueryGet(chReq.Query, KeyParam)

C25_WitnessByParameter ==
    /\ chServed > 0 /\ Forwarded("authorize")
    /\ chReq.Header = <<>> /\ QueryGet(chReq.Query, KeyParam) = chOpts.APIKey

\* The headers of a name that the response carries.
HeadersNamed(n) == {h \in chTrace.hdrs : h[1] = n}

\* C26: addCacheHeaders (enabled with ttl >= 0) sets Cache-Control and
\* Expires for a GET on a non-public path and neither for another method or
\* a public path; with ttl = 0 the Cache-Control value has the no-cache and
\* no-store directives and no age, with ttl > 0 it is public with s-maxage
\* and max-age both equal to ttl.
C26_CacheHeaders ==
    (chServed > 0 /\ Pos("addCacheHeaders") > 0) =>
        /\ chOpts.HTTPCacheTTL >= 0
        /\ IF chReq.Method = "GET" /\ chReq.Path \notin {RootPath, HealthPath, FormPath}
           THEN /\ Cardinality(HeadersNamed("Expires")) = 1
                /\ Cardinality(HeadersNamed("Cache-Control")) = 1
                /\ \A h \in HeadersNamed("Cache-Control") :
                       IF chOpts.HTTPCacheTTL = 0
                       THEN /\ {"no-cache", "no-store"} \subseteq h[2].directives
                            /\ "public" \notin h[2].directives
                            /\ h[2].sMaxAge = -1 /\ h[2].maxAge = -1
                       ELSE /\ "public" \in h[2].directives
                            /\ "no-store" \notin h[2].directives
                            /\ h[2].sMaxAge = chOpts.HTTPCacheTTL
                            /\ h[2].maxAge = chOpts.HTTPCacheTTL
           ELSE HeadersNamed("Expires") = {} /\ HeadersNamed("Cache-Control") = {}

\* A GET to an image route with a positive ttl, and a POST to it.
C26_Witness ==
    /\ chServed > 0 /\ Pos("addCacheHeaders") > 0
    /\ chReq.Method = "GET" /\ chReq.Path = ResizePath /\ chOpts.HTTPCacheTTL > 0
    /\ \E h \in HeadersNamed("Cache-Control") : h[2].sMaxAge = chOpts.HTTPCacheTTL

C26_WitnessSkipped ==
    /\ chServed > 0 /\ Pos("addCacheHeaders") > 0
    /\ chReq.Method = "POST" /\ HeadersNamed("Cache-Control") = {}

\* The handlers of the sequence `order` that ran for the request ran in the
\* order of the sequence.
RanInOrder(order) ==
    \A i, j \in 1..Len(order) :
        (i < j /\ Pos(order[i]) > 0 /\ Pos(order[j]) > 0) => Pos(order[i]) < Pos(order[j])

\* C28 as stated: every request is subjected to method/endpoint validation
\* first, then to rate limiting, then to CORS, then to authorization, and
\* only then are the cache headers added.
C28_ValidationLimitCorsAuthCache ==
    chServed > 0 =>
        RanInOrder(<<"validateRequest", "validateEndpoints", "throttleRequests", "CORS",
                     "authorize", "addCacheHeaders">>)

\* C28, amended: every request is subjected to method validation first, then
\* the cache headers are added, then comes authorization, then CORS, then
\* rate limiting, and only then endpoint validation (each layer if enabled).
C28_ValidationCacheAuthCorsLimit ==
    chServed > 0 =>
        RanInOrder(<<"validateRequest", "addCacheHeaders", "authorize", "CORS",
                     "throttleRequests", "validateEndpoints">>)

\* A request that went through all six layers to the handler.
C28_Witness ==
    /\ chServed > 0
    /\ \A n \in {"validateRequest", "addCacheHeaders", "authorize", "CORS",
                 "throttleRequests", "validateEndpoints"} : Forwarded(n)
    /\ Pos("createImageHandler") > 0

\* C39: a response that rejects the request in an inner layer (invalid API
\* key, rate-limit denial, disabled endpoint, failed fetch or transform)
\* carries no Cache-Control header that marks it publicly cacheable.
C39_RejectionsNotCacheable ==
    (/\ chServed > 0 /\ chResp.err # NoError
     /\ \E n \in {"authorize", "throttleRequests", "validateEndpoints", "createImageHandler"} :
            Stopped(n)) =>
        \A h \in HeadersNamed("Cache-Control") : "public" \notin h[2].directives

(***************************************************************************)
(* Traffic through the rate limiters                                       *)
(***************************************************************************)

\* The configured rates (requests per second) and bursts.
Rates == {1, Second}
Bursts == {0, 1}

Arrival(route, method, addr) ==
    [Method |-> method, Path |-> route, Header |-> <<>>, RemoteAddr |-> addr, Query |-> {}]

\* The traffic observed: one stream until MaxTime, or streams that differ in
\* client, route or method for one tick.
Traffics ==
    {[reqs |-> {Arrival(ResizePath, "GET", "c1")}, until |-> MaxTime],
     [reqs |-> {Arrival(ResizePath, "GET", "c1"), Arrival(ResizePath, "GET", "c2")},
      until |-> 1],
     [reqs |-> {Arrival(ResizePath, "GET", "c1"), Arrival(CropPath, "GET", "c1"),
                Arrival(ResizePath, "POST", "c1")},
      until |-> 1]}

\* A request of the traffic reaches the rate limit wrapper of its route.
RateRequest ==
    \E req \in rlTraffic.reqs :
        \E r \in {throttleRequests(chOpts, RoutePattern(req.Path), req, rlNow, rlStore)} :
            LET key == <<RoutePattern(req.Path), req.Method>>
                old == IF key \in DOMAIN rlWindow /\ ~r.fresh THEN rlWindow[key]
                       ELSE [start |-> rlNow, admitted |-> 0]
            IN  /\ rlStore' = r.store
                /\ rlWindow' = StoreSet(rlWindow, key,
                                        [start |-> old.start,
                                         admitted |-> old.admitted
                                                      + IF r.forward THEN 1 ELSE 0])
                /\ rlLast' = [route |-> key[1], Method |-> req.Method,
                              RemoteAddr |-> req.RemoteAddr, limited |-> ~r.forward,
                              deniedBefore |-> rlDenied, usedBefore |-> old.admitted,
                              start |-> old.start, at |-> rlNow]
                /\ rlDenied' = IF r.forward THEN rlDenied ELSE rlDenied \cup {key}
                /\ UNCHANGED <<rlNow, rlTraffic>>
                /\ UNCHANGED <<fsVars, httpVars, plVars, sigVars, chVars, hdVars, bdVars, rgVars, opVars, crVars>>

\* The clock advances by one tick.
RateTick ==
    /\ rlNow < rlTraffic.until
    /\ rlNow' = rlNow + 1
    /\ rlDenied' = {}
    /\ UNCHANGED <<rlStore, rlWindow, rlLast, rlTraffic>>
    /\ UNCHANGED <<fsVars, httpVars, plVars, sigVars, chVars, hdVars, bdVars, rgVars, opVars, crVars>>

\* What one limiter key admits in a busy window that started `elapsed` ago.
Envelope(elapsed) ==
    chOpts.Burst + 1 + elapsed \div PerSec(chOpts.Concurrency)

\* C6 as stated: one quota for the whole process, so once any request has
\* been rejected at an instant, no request to any endpoint or with any
\* method is admitted at that instant.
C6_OneGlobalQuota ==
    (rlLast # NoDecision /\ ~rlLast.limited) => rlLast.deniedBefore = {}

\* C6 as amended: every route has its own limiter, keyed by the HTTP method
\* and by nothing of the client.  Requests to the same route with the same
\* method share one quota whatever the client, and a request is rejected
\* exactly when that quota is used up, so after a rejection no request to
\* that route with that method is admitted at the same instant.
C6_QuotaPerRouteAndMethod ==
    rlLast # NoDecision =>
        /\ rlLast.limited <=> rlLast.usedBefore >= Envelope(rlLast.at - rlLast.start)
        /\ ~rlLast.limited => <<rlLast.route, rlLast.Method>> \notin rlLast.deniedBefore

C6_Witness ==
    /\ rlLast # NoDecision
    /\ ~rlLast.limited
    /\ rlLast.deniedBefore # {}

C6_WitnessSharedByClients ==
    /\ rlLast.limited
    /\ rlLast.RemoteAddr = "c2"
    /\ \A k \in DOMAIN rlWindow : rlWindow[k].admitted = 1

\* C7 as stated: when a request is rejected, exactly B + floor(R*t) requests
\* have been admitted in the t seconds since the limiter was idle.
C7_BurstPlusRate ==
    \A k \in rlDenied :
        rlWindow[k].admitted
            = chOpts.Burst + (chOpts.Concurrency * (rlNow - rlWindow[k].start)) \div Second

\* C7 as amended: with emission interval T = floor(second / R), in a window
\* of t that starts with the limiter idle at most B + 1 + floor(t / T)
\* requests are admitted, and exactly that many have been admitted at any
\* instant at which a request is rejected; so every further request of that
\* instant is rejected too.
C7_BurstPlusOnePlusRate ==
    /\ \A k \in DOMAIN rlWindow :
          rlWindow[k].admitted <= Envelope(rlNow - rlWindow[k].start)
    /\ \A k \in rlDenied :
          rlWindow[k].admitted = Envelope(rlNow - rlWindow[k].start)

C7_Witness ==
    /\ rlNow = MaxTime
    /\ \E k \in rlDenied : rlWindow[k].start = 0 /\ rlWindow[k].admitted > chOpts.Burst + 1

(***************************************************************************)
(* Image handler (middleware.go createImageHandler, controllers.go)        *)
(***************************************************************************)

\* One million pixels.
Megapixel == 1000000

\* The options of the handler that are explored.
HandlerOptions ==
    [EnablePlaceholder : BOOLEAN, Placeholder : {<<>>, <<"p">>},
     PlaceholderStatus : {0, 200}, MaxAllowedPixels : {1, 2},
     AllowedOrigins : {<<>>, <<OriginA>>}, MaxAllowedSize : {FetchLimit},
     build : HTTPBuilds]

HandlerOptionsOff ==
    [EnablePlaceholder |-> FALSE, Placeholder |-> <<>>, PlaceholderStatus |-> 0,
     MaxAllowedPixels |-> 1, AllowedOrigins |-> <<>>, MaxAllowedSize |-> 0,
     build |-> "source_http.go"]

\* Width and height of the source images.
ImageSizes == [Width : {1000, 2000}, Height : {1000, 2000}]

NoImageSize == [Width |-> 0, Height |-> 0]

\* The queries of the requests: the `type` parameter (the output format),
\* and whether the request is one to /pipeline whose `operations` parameter
\* names an operation that OperationsMap does not have.
HandlerQueries == [type : {<<>>, <<"a", "u", "t", "o">>}, unknownOp : BOOLEAN]

\* The requests to an image endpoint: a GET with a `url` parameter, or a
\* POST with a multipart form whose `file` part is missing, empty or an
\* image.  `image` is the size of the image the request is about.
HandlerRequests ==
    {[Method |-> "GET", url |-> [bad |-> FALSE, Host |-> h, Path |-> <<"/", "p">>],
      file |-> "none", image |-> sz, type |-> q.type, unknownOp |-> q.unknownOp] :
         h \in {<<"a">>, <<"a", "a">>}, sz \in ImageSizes, q \in HandlerQueries}
    \cup {[Method |-> "POST", url |-> [bad |-> TRUE, Host |-> <<>>, Path |-> <<>>],
           file |-> "image", image |-> sz, type |-> q.type, unknownOp |-> q.unknownOp] :
              sz \in ImageSizes, q \in HandlerQueries}
    \cup {[Method |-> "POST", url |-> [bad |-> TRUE, Host |-> <<>>, Path |-> <<>>],
           file |-> f, image |-> NoImageSize, type |-> q.type, unknownOp |-> q.unknownOp] :
              f \in {"none", "empty"}, q \in HandlerQueries}

NoHandlerRequest ==
    [Method |-> "", url |-> [bad |-> TRUE, Host |-> <<>>, Path |-> <<>>],
     file |-> "none", image |-> NoImageSize, type |-> <<>>, unknownOp |-> FALSE]

\* What the remote server answers to the handler's fetch.
HandlerRemotes ==
    {[head |-> [fail |-> FALSE, status |-> 200, clen |-> 1],
      get |-> [fail |-> FALSE, status |-> 200, len |-> n]] : n \in {0, 1}}
    \cup {[head |-> [fail |-> FALSE, status |-> 200, clen |-> 1],
           get |-> [fail |-> FALSE, status |-> 500, len |-> 1]],
          [head |-> [fail |-> TRUE, status |-> 0, clen |-> 0],
           get |-> [fail |-> TRUE, status |-> 0, len |-> 0]]}

\* getImageFromURL: the request's `url` is fetched by the remote source.
getImageFromURL(o, req, remote) ==
    HTTPGetImage(o.build, AuthOff, o.AllowedOrigins, o.MaxAllowedSize, req.url,
                 NoHeaders, remote.head, remote.get)

\* getImageFromRequest: the `file` part of the form, read whole.
getImageFromRequest(req) ==
    IF req.file = "none" THEN [err |-> "http: no such file", outbound |-> <<>>, len |-> 0]
    ELSE [err |-> "", outbound |-> <<>>, len |-> IF req.file = "empty" THEN 0 ELSE 1]

\* What createImageHandler does after the image src was read: the source's
\* error, the empty body, or what the parameters and the operation do.
HandlerOutcomeOf(src, rest) ==
    IF src.err # "" THEN "sourceError"
    ELSE IF src.len = 0 THEN "emptyBody"
    ELSE rest

\* The renderings of the placeholder that can happen under options o.
Renders(o) ==
    IF o.EnablePlaceholder \/ o.Placeholder # <<>> THEN RenderOutcomes ELSE {"ok"}

\* What buildParamsFromQuery and the operation can do with a request: the
\* Pipeline operation fails on a name that OperationsMap does not have.
RestOutcomes(req) ==
    IF req.unknownOp THEN {"paramsError", "operationError"}
    ELSE {"ok", "paramsError", "operationError"}

\* The headers the handler and the repliers set on a response.
ResponseHeaders(resp) ==
    IF resp.body = "result"
    THEN {<<"Content-Type", "image">>, <<"Content-Length", "len">>}
    ELSE IF resp.placeholder
    THEN {<<"Content-Type", "image">>, <<"Error", "json">>}
    ELSE {<<"Content-Type", "application/json">>}

HDIdleOut ==
    [work |-> <<>>, resp |-> NoResponse, reported |-> NoError, render |-> "ok",
     src |-> HTTPIdleOut, hdrs |-> {}]

\* The image handler when no request is given to it.
HandlerIdle ==
    /\ hdOpts = HandlerOptionsOff
    /\ hdReq = NoHandlerRequest
    /\ hdOut = HDIdleOut
    /\ hdServed = FALSE

\* The handler registered for the image routes serves the request.
HandlerRequest ==
    \E remote \in HandlerRemotes, render \in Renders(hdOpts),
       rest \in RestOutcomes(hdReq) :
        LET src == IF hdReq.Method = "GET" THEN getImageFromURL(hdOpts, hdReq, remote)
                   ELSE getImageFromRequest(hdReq)
            h   == createImageHandler(hdOpts, hdReq,
                       [handler |-> HandlerOutcomeOf(src, rest), render |-> render])
        IN  /\ ~hdServed
            /\ hdServed' = TRUE
            /\ hdOut' = [work |-> h.work, resp |-> h.resp, reported |-> h.reported,
                         render |-> render, src |-> src,
                         hdrs |-> ResponseHeaders(h.resp)]
            /\ UNCHANGED <<hdOpts, hdReq>>
            /\ UNCHANGED <<fsVars, httpVars, plVars, sigVars, chVars, rlVars, bdVars, rgVars, opVars, crVars>>

\* The source image was read and is larger than the megapixel ceiling.
TooBig ==
    /\ hdOut.src.err = "" /\ hdOut.src.len > 0
    /\ hdReq.image.Width * hdReq.image.Height > hdOpts.MaxAllowedPixels * Megapixel

\* C12: every image request whose source image has width x height above the
\* configured megapixel ceiling is rejected with the resolution-too-big
\* error, and the transform operation is not invoked for it.
C12_ResolutionGuard ==
    (hdServed /\ TooBig) =>
        /\ hdOut.reported = ErrResolutionTooBig
        /\ \A i \in 1..Len(hdOut.work) : hdOut.work[i] # "operation"

\* A placeholder image or the placeholder mode is configured.
PlaceholderConfigured == hdOpts.EnablePlaceholder \/ hdOpts.Placeholder # <<>>

\* The handler reported an error through ErrorReply.
Reported == hdServed /\ hdOut.reported # NoError

\* The response is the fallback image for the error reported.
PlaceholderResponse ==
    /\ hdOut.resp.body = "placeholder image"
    /\ hdOut.resp.errorHeader = hdOut.reported
    /\ hdOut.resp.Code = IF hdOpts.PlaceholderStatus # 0 THEN hdOpts.PlaceholderStatus
                         ELSE hdOut.reported.Code

\* The response is the JSON body of the error reported, with its status.
JSONErrorResponse ==
    /\ hdOut.resp.body = "json message status"
    /\ hdOut.resp.err = hdOut.reported
    /\ hdOut.resp.errorHeader = NoError
    /\ hdOut.resp.Code = hdOut.reported.Code

C17_WitnessNotRendered ==
    /\ Reported /\ PlaceholderConfigured /\ hdOut.render = "badWidth"
    /\ hdOut.resp.Code = 400 /\ hdOut.resp.body = "json error status"

\* C19: a GET to an image endpoint with a `url` whose host is not in the
\* non-empty allow-list is answered with a 403 JSON error (no placeholder
\* being configured).
C19_BlockedOriginForbidden ==
    (/\ hdServed /\ hdReq.Method = "GET" /\ ~hdReq.url.bad
     /\ hdOpts.AllowedOrigins # <<>>
     /\ \A i \in 1..Len(hdOpts.AllowedOrigins) :
            hdOpts.AllowedOrigins[i].Host # hdReq.url.Host
     /\ ~PlaceholderConfigured) =>
        /\ hdOut.resp.Code = 403
        /\ hdOut.resp.body = "json message status"

\* C27: every image request whose output format is `auto` is answered with
\* the header `Vary: Accept`, whatever its outcome.
C27_AutoVariesOnAccept ==
    (hdServed /\ hdReq.type = <<"a", "u", "t", "o">>) =>
        <<"Vary", "Accept">> \in hdOut.hdrs

\* C29: a pipeline request that names an unknown operation is answered 400
\* before any image bytes are touched: no source was asked for the image
\* and the operation did not run.
C29_UnknownOperationBeforeBytes ==
    (hdServed /\ hdReq.unknownOp) =>
        /\ hdOut.resp.Code = 400 \/ hdOut.resp.placeholder
        /\ hdOut.src.outbound = <<>>
        /\ hdOut.src.len = 0
        /\ hdOut.work = <<>>

(***************************************************************************)
(* Request-body source (source_body.go)                                    *)
(***************************************************************************)

\* The byte ceiling of a payload (64 MB in the code).
maxMemory == 2

\* The package holds two definitions of BodyImageSource, one in
\* source_body.go and one in the file of part_004; a build links one.
BodyBuilds == {"source_body.go", "part_004"}

multipartPrefix == <<"m", "u", "l", "t", "i", "p", "a", "r", "t", "/">>

\* The Content-Type headers of the requests: none, a multipart form, and
\* two that are not multipart.
ContentTypes ==
    {<<>>, multipartPrefix \o <<"f">>, SubSeq(multipartPrefix, 1, 9),
     <<"i", "m", "a", "g", "e", "/", "x">>}

\* The requests with a body: `part` tells whether a multipart form has a
\* `file` part, `len` is the length of the payload (of the `file` part of a
\* form, of the body otherwise).
BodyRequests ==
    [Method : {"POST", "PUT"}, ContentType : ContentTypes, part : BOOLEAN,
     len : 0..(maxMemory + 2)]

NoBodyRequest == [Method |-> "", ContentType |-> <<>>, part |-> FALSE, len |-> 0]

\* The smaller of two lengths.
MinLen(a, b) == IF a < b THEN a ELSE b

\* readFormBody: source_body.go copies at most maxMemory+1 bytes of the
\* `file` part and rejects more than maxMemory; part_004 copies all of it.
readFormBody(build, req) ==
    IF ~req.part THEN [err |-> "http: no such file", len |-> 0]
    ELSE IF build = "source_body.go"
    THEN LET written == MinLen(req.len, maxMemory + 1)
         IN  IF written > maxMemory THEN [err |-> "ErrEntityTooLarge", len |-> 0]
             ELSE IF written = 0 THEN [err |-> "ErrEmptyBody", len |-> 0]
             ELSE [err |-> "", len |-> written]
    ELSE IF req.len = 0 THEN [err |-> "ErrEmptyBody", len |-> 0]
    ELSE [err |-> "", len |-> req.len]

\* readRawBody: source_body.go reads through a LimitReader of maxMemory+1
\* bytes and rejects more than maxMemory; part_004 reads through a
\* LimitReader of maxMemory bytes.
readRawBody(build, req) ==
    LET body == MinLen(req.len, IF build = "source_body.go" THEN maxMemory + 1
                                ELSE maxMemory)
    IN  IF build = "source_body.go" /\ body > maxMemory
        THEN [err |-> "ErrEntityTooLarge", len |-> 0]
        ELSE IF body = 0 THEN [err |-> "ErrEmptyBody", len |-> 0]
        ELSE [err |-> "", len |-> body]

\* BodyImageSource.GetImage
BodyGetImage(build, req) ==
    IF HasPrefix(req.ContentType, multipartPrefix) THEN readFormBody(build, req)
    ELSE readRawBody(build, req)

BDIdleOut == [err |-> "", len |-> 0]

\* The body source when no request is given to it.
BodyIdle ==
    /\ bdBuild = "source_body.go"
    /\ bdReq = NoBodyRequest
    /\ bdOut = BDIdleOut
    /\ bdServed = FALSE

\* A POST or PUT request is served by the body source.
BodyRequest ==
    /\ ~bdServed
    /\ bdReq.Method \in {"POST", "PUT"}
    /\ bdServed' = TRUE
    /\ bdOut' = BodyGetImage(bdBuild, bdReq)
    /\ UNCHANGED <<bdBuild, bdReq>>
    /\ UNCHANGED <<fsVars, httpVars, plVars, sigVars, chVars, rlVars, hdVars, rgVars, opVars, crVars>>

\* The request carries a payload: its body, or the `file` part of its form.
HasPayload == HasPrefix(bdReq.ContentType, multipartPrefix) => bdReq.part

\* C15: for a multipart `file` part and for a raw body alike, the body
\* source returns a non-empty payload of at most the byte ceiling whole,
\* rejects a longer payload with the "entity too large" error and an empty
\* one with the distinct "empty body" error; it never returns a payload
\* longer than the ceiling, whole or truncated.
C15_PayloadCeiling ==
    (bdServed /\ HasPayload) =>
        /\ (bdReq.len > 0 /\ bdReq.len <= maxMemory) =>
               (bdOut.err = "" /\ bdOut.len = bdReq.len)
        /\ bdReq.len > maxMemory => bdOut.err = "ErrEntityTooLarge"
        /\ bdReq.len = 0 => bdOut.err = "ErrEmptyBody"

(***************************************************************************)
(* Source registry (source.go)                                             *)
(***************************************************************************)

\* Calls of MatchSource that are followed for one request.
MaxResolve == 2

\* The source types whose factories the init functions register; LoadSources
\* loads every one of them.
LoadedSources == {"http", "fs", "payload"}

\* The package holds two definitions of FileSystemImageSource, one in
\* source_fs.go and one in the file of part_005; a build links one.
FSBuilds == {"source_fs.go", "part_005"}

\* The requests: a method, the value of the `url` parameter and the value
\* of the `file` parameter (<<>> when absent).
RegistryRequests ==
    [Method : {"GET", "POST", "PUT", "DELETE"}, url : {<<>>, <<"u">>},
     file : {<<>>, <<"a">>, <<"%">>}]

NoRegistryRequest == [Method |-> "", url |-> <<>>, file |-> <<>>]

\* HTTPImageSource.Matches
HTTPMatches(req) == req.Method = "GET" /\ req.url # <<>>

\* FileSystemImageSource.Matches: source_fs.go tests the parameter as it
\* is, part_005 tests the unescaped parameter.
FSMatches(build, req) ==
    /\ req.Method = "GET"
    /\ IF build = "source_fs.go" THEN req.file # <<>>
       ELSE LET p == QueryUnescape(req.file) IN ~p.err /\ p.val # <<>>

\* BodyImageSource.Matches
BodyMatches(req) == req.Method = "POST" \/ req.Method = "PUT"

\* Matches of the source of a type.
Matches(build, type, req) ==
    CASE type = "http" -> HTTPMatches(req)
      [] type = "fs" -> FSMatches(build, req)
      [] OTHER -> BodyMatches(req)

\* The orders in which a range over the map of sources can visit them: the
\* iteration order of a map is not specified and differs between ranges.
IterationOrders ==
    {o \in [1..3 -> LoadedSources] : \A i, j \in 1..3 : i # j => o[i] # o[j]}

\* MatchSource: the first source visited whose Matches is true, else none.
MatchSource(build, order, req) ==
    IF \E i \in 1..3 : Matches(build, order[i], req)
    THEN order[CHOOSE i \in 1..3 :
                   /\ Matches(build, order[i], req)
                   /\ \A j \in 1..(i - 1) : ~Matches(build, order[j], req)]
    ELSE "none"

\* The options that decide which GET requests validateImageRequest admits.
SourceOptions == [Mount : {<<>>, <<"/", "a">>}, EnableURLSource : BOOLEAN]

\* What getImageFromURL did: the source that MatchSource returned, the files
\* it opened, the requests it sent.
NoGot == [source |-> "", err |-> "", opened |-> <<>>, outbound |-> <<>>]

\* The URL that the `url` parameter of the registry's requests stands for,
\* and the answers of its server.
RemoteURL == [bad |-> FALSE, Host |-> <<"a">>, Path |-> <<"/", "p">>]
RemoteOK == [head |-> [fail |-> FALSE, status |-> 200, clen |-> 1],
             get |-> [fail |-> FALSE, status |-> 200, len |-> 1]]

\* getImageFromURL: GetImage of the source that MatchSource returns; the
\* sources hold the one SourceConfig that LoadSources built from the options.
getImageFromSource(build, o, order, req, outcome) ==
    LET source == MatchSource(build, order, req)
    IN  CASE source = "none" ->
                [source |-> source, err |-> "missing image source", opened |-> <<>>,
                 outbound |-> <<>>]
          [] source = "fs" ->
                LET r == FSGetImage(o.Mount, req.file, outcome)
                IN  [source |-> source, err |-> r.err, opened |-> r.opened,
                     outbound |-> <<>>]
          [] source = "http" ->
                LET r == HTTPGetImage("source_http.go", AuthOff, <<>>, 0, RemoteURL,
                                      NoHeaders, RemoteOK.head, RemoteOK.get)
                IN  [source |-> source, err |-> r.err, opened |-> <<>>,
                     outbound |-> r.outbound]
          [] OTHER ->
                [source |-> source, err |-> "", opened |-> <<>>, outbound |-> <<>>]

\* The registry when no request is given to it.
RegistryIdle ==
    /\ rgBuild = "source_fs.go"
    /\ rgReq = NoRegistryRequest
    /\ rgRes = <<>>
    /\ rgOpts = [Mount |-> <<>>, EnableURLSource |-> FALSE]
    /\ rgGot = NoGot

\* MatchSource is called for the request.
Resolve ==
    \E order \in IterationOrders :
        /\ Len(rgRes) < MaxResolve
        /\ rgReq.Method # ""
        /\ rgRes' = Append(rgRes, MatchSource(rgBuild, order, rgReq))
        /\ UNCHANGED <<rgBuild, rgReq, rgOpts, rgGot>>
        /\ UNCHANGED <<fsVars, httpVars, plVars, sigVars, chVars, rlVars, hdVars,
                       bdVars, opVars, crVars>>

\* A GET request to an image route passes validateImageRequest and the
\* handler gets its image: createImageHandler calls getImageFromURL.
GetFromURL ==
    \E order \in IterationOrders, outcome \in {"ok", "ErrNotExist"} :
        /\ rgGot = NoGot
        /\ rgReq.Method = "GET"
        /\ rgGot' = IF validateImageRequest(rgOpts, [Method |-> rgReq.Method,
                                                     Path |-> ResizePath])
                    THEN getImageFromSource(rgBuild, rgOpts, order, rgReq, outcome)
                    ELSE [NoGot EXCEPT !.source = "rejected",
                                       !.err = "GET method not allowed"]
        /\ UNCHANGED <<rgBuild, rgReq, rgRes, rgOpts>>
        /\ UNCHANGED <<fsVars, httpVars, plVars, sigVars, chVars, rlVars, hdVars,
                       bdVars, opVars, crVars>>

\* The loaded sources whose Matches is true for the request.
Claimants == {t \in LoadedSources : Matches(rgBuild, t, rgReq)}

\* C21: for every request, at most one of the loaded source variants
\* answers Matches with true.
C21_AtMostOneClaims ==
    Len(rgRes) > 0 => Cardinality(Claimants) <= 1

\* C22: MatchSource returns a variant whose Matches is true, none when no
\* variant matches, and every call for the same request returns the same
\* variant.
C22_ResolutionDeterministic ==
    /\ \A i \in 1..Len(rgRes) :
           IF Claimants = {} THEN rgRes[i] = "none" ELSE rgRes[i] \in Claimants
    /\ \A i, j \in 1..Len(rgRes) : rgRes[i] = rgRes[j]

\* C33: when no filesystem mount is configured, no request causes a file to
\* be opened: a GET with a `file` parameter that is admitted because the URL
\* source is enabled is rejected without a file opened.
C33_NoMountNoFileRead ==
    (rgGot # NoGot /\ rgOpts.Mount = <<>>) =>
        /\ rgGot.opened = <<>>
        /\ (rgReq.file # <<>> /\ rgReq.url = <<>>) => rgGot.err # ""

\* C34: when the URL source is not enabled, no request causes a remote
\* fetch: a GET with a `url` parameter that is admitted because a mount is
\* configured sends no HEAD and no GET.
C34_NoURLSourceNoFetch ==
    (rgGot # NoGot /\ ~rgOpts.EnableURLSource) => rgGot.outbound = <<>>

(***************************************************************************)
(* Single operations (image.go)                                            *)
(***************************************************************************)

\* The operations explored, and the output formats (bimg.ImageType).
SingleOperations == {"resize", "extract", "watermark"}
ImageFormats == {"jpeg", "png", "webp", "heif", "avif"}

\* What a call of bimg.Resize does: it returns the image, fails with an
\* error whose message contains "encode", fails with another error, or
\* panics.
ResizeAnswers == {"ok", "encodeError", "otherError", "panic"}

\* The operations that call bimg themselves, and the one that fetches.
DirectOperations == {"autorotate", "info"}

\* The `image` parameter of watermarkimage: none, or the URL of the image.
NoWatermarkURL == [Host |-> <<>>, Path |-> <<>>]
WatermarkURLs ==
    {NoWatermarkURL} \cup {[Host |-> h, Path |-> <<"/", "p">>] : h \in {<<"a">>, <<"a", "a">>}}

\* What http.Get of the watermark image gives: an error, an empty body, or
\* an image.
WatermarkAnswers == {"fail", "empty", "ok"}

\* The options of a request (ImageOptions), what bimg answers to the first
\* and to the second call made for it, what the server of the watermark
\* image answers, and the allow-list of the server's options (which no
\* operation is given).
OperationRequests ==
    {[op |-> op, Width |-> w, Height |-> h, AreaWidth |-> aw, AreaHeight |-> ah,
      Text |-> t, Type |-> ty, bimg |-> b, Image |-> NoWatermarkURL, wm |-> "ok",
      AllowedOrigins |-> <<>>] :
        op \in SingleOperations \cup DirectOperations, w \in {0, 1}, h \in {0, 1},
        aw \in {0, 1}, ah \in {0, 1}, t \in {<<>>, <<"t">>}, ty \in ImageFormats,
        b \in [1..2 -> ResizeAnswers]}
    \cup {[op |-> "watermarkimage", Width |-> 0, Height |-> 0, AreaWidth |-> 0,
           AreaHeight |-> 0, Text |-> <<>>, Type |-> ty, bimg |-> b, Image |-> u,
           wm |-> a, AllowedOrigins |-> al] :
              ty \in ImageFormats, b \in [1..2 -> ResizeAnswers], u \in WatermarkURLs,
              a \in WatermarkAnswers, al \in {<<>>, <<OriginA>>}}

NoOperationRequest ==
    [op |-> "", Width |-> 0, Height |-> 0, AreaWidth |-> 0, AreaHeight |-> 0,
     Text |-> <<>>, Type |-> "", bimg |-> [i \in 1..2 |-> "ok"],
     Image |-> NoWatermarkURL, wm |-> "ok", AllowedOrigins |-> <<>>]

\* What an operation gives: the calls of the transform it made, its error,
\* whether a panic left it, and the URLs it fetched.
Returned(calls, err) ==
    [calls |-> calls, err |-> err, panicked |-> FALSE, outbound |-> <<>>]

\* The error of an operation that a parameter is missing for.
MissingParam(what) ==
    Returned(<<>>, [Message |-> <<"Missing required param", what>>, Code |-> 400])

\* The error of a call of bimg.Resize, "" for none; a panic is recovered
\* into an error by Process.
ProcessError(answer) ==
    CASE answer = "ok" -> NoError
      [] answer = "panic" -> [Message |-> "libvips internal error", Code |-> 0]
      [] OTHER -> [Message |-> "image processing error", Code |-> 0]

\* Process calling bimg.Resize again after every error.
ProcessRetryAlways(type, answers) ==
    IF answers[1] \in {"encodeError", "otherError"}
    THEN Returned(<<type, "jpeg">>, ProcessError(answers[2]))
    ELSE Returned(<<type>>, ProcessError(answers[1]))

\* Process: bimg.Resize is called with the options; when it fails with an
\* encoding error and the output format is WEBP, HEIF or AVIF, it is called
\* once more with JPEG as the output format.  `calls` are the output
\* formats of the calls made.
Process(type, answers) ==
    IF answers[1] = "encodeError" /\ type \in {"webp", "heif", "avif"}
    THEN Returned(<<type, "jpeg">>, ProcessError(answers[2]))
    ELSE Returned(<<type>>, ProcessError(answers[1]))

Resize(o) ==
    IF o.Width = 0 /\ o.Height = 0 THEN MissingParam("height or width")
    ELSE Process(o.Type, o.bimg)

Extract(o) ==
    IF o.AreaWidth = 0 \/ o.AreaHeight = 0 THEN MissingParam("areawidth or areaheight")
    ELSE Process(o.Type, o.bimg)

Watermark(o) ==
    IF o.Text = <<>> THEN MissingParam("text")
    ELSE Process(o.Type, o.bimg)

\* A call of bimg outside Process: its error is returned as it is, and
\* nothing recovers its panic.
DirectCall(name, answer) ==
    IF answer = "panic"
    THEN [calls |-> <<name>>, err |-> NoError, panicked |-> TRUE, outbound |-> <<>>]
    ELSE Returned(<<name>>, IF answer = "ok" THEN NoError
                            ELSE [Message |-> "bimg error", Code |-> 0])

\* AutoRotate: bimg.NewImage(buf).AutoRotate()
AutoRotate(o) == DirectCall("AutoRotate", o.bimg[1])

\* Info: bimg.Metadata(buf)
Info(o) ==
    LET r == DirectCall("Metadata", o.bimg[1])
    IN  IF ~r.panicked /\ r.err # NoError
        THEN Returned(r.calls, [Message |-> "Cannot retrieve image metadata", Code |-> 400])
        ELSE r

\* WatermarkImage: the image is fetched with http.Get and handed to Process.
WatermarkImage(o) ==
    IF o.Image = NoWatermarkURL THEN MissingParam("image")
    ELSE IF o.wm = "fail"
    THEN [Returned(<<>>, [Message |-> "Unable to retrieve watermark image", Code |-> 400])
             EXCEPT !.outbound = <<o.Image>>]
    ELSE IF o.wm = "empty"
    THEN [Returned(<<>>, [Message |-> "Unable to read watermark image", Code |-> 400])
             EXCEPT !.outbound = <<o.Image>>]
    ELSE [Process(o.Type, o.bimg) EXCEPT !.outbound = <<o.Image>>]

OPIdleOut == Returned(<<>>, NoError)

\* No operation is called.
OperationIdle ==
    /\ opReq = NoOperationRequest
    /\ opOut = OPIdleOut
    /\ opServed = FALSE

\* Operation.Run: the operation of the route is run on the image.
OperationRun ==
    /\ ~opServed
    /\ opServed' = TRUE
    /\ opOut' = CASE opReq.op = "resize" -> Resize(opReq)
                  [] opReq.op = "extract" -> Extract(opReq)
                  [] opReq.op = "watermark" -> Watermark(opReq)
                  [] opReq.op = "autorotate" -> AutoRotate(opReq)
                  [] opReq.op = "info" -> Info(opReq)
                  [] OTHER -> WatermarkImage(opReq)
    /\ UNCHANGED opReq
    /\ UNCHANGED <<fsVars, httpVars, plVars, sigVars, chVars, rlVars, hdVars, bdVars, rgVars, crVars>>

\* The parameters that the operation requires are in the request.
RequiredPresent ==
    CASE opReq.op = "resize" -> opReq.Width # 0 \/ opReq.Height # 0
      [] opReq.op = "extract" -> opReq.AreaWidth # 0 /\ opReq.AreaHeight # 0
      [] OTHER -> opReq.Text # <<>>

\* The operation failed for a missing parameter, without a call.
FailedMissing ==
    /\ opOut.calls = <<>>
    /\ opOut.err # NoError /\ opOut.err.Code = 400
    /\ opOut.err.Message[1] = "Missing required param"

ModernEncodeFailure ==
    opReq.bimg[1] = "encodeError" /\ opReq.Type \in {"webp", "heif", "avif"}

C30_WitnessFailedOnce ==
    /\ opServed /\ RequiredPresent /\ opReq.bimg[1] = "otherError"
    /\ Len(opOut.calls) = 1 /\ opOut.err # NoError

C30_WitnessMissing ==
    /\ opServed /\ opReq.op = "extract" /\ opReq.AreaWidth # 0 /\ opReq.AreaHeight = 0
    /\ FailedMissing

\* A call that the operation made of the external transform panicked.
TransformPanicked ==
    \E i \in 1..Len(opOut.calls) : opReq.bimg[i] = "panic"

\* C32: for every operation, autorotate and info included, a panic of the
\* external transform call becomes an error that the operation returns, with
\* an empty image; it does not leave the operation.
C32_PanicBecomesError ==
    (opServed /\ TransformPanicked) =>
        /\ ~opOut.panicked
        /\ opOut.err # NoError

\* C35: with a non-empty allow-list, no operation sends a request to a host
\* that no entry of the list matches, the fetch of the watermark image
\* included.
C35_WatermarkFetchAllowListed ==
    (opServed /\ opReq.AllowedOrigins # <<>>) =>
        \A i \in 1..Len(opOut.outbound) :
            ~shouldRestrictOrigin(opReq.AllowedOrigins, opOut.outbound[i])

(***************************************************************************)
(* Concurrent use of the registry (source.go, registry.mu)                 *)
(***************************************************************************)

\* Iterations of the range over the sources that one MatchSource makes.
MaxVisits == 2

\* The goroutines: two requests resolving their source, one call of
\* LoadSources, one call of RegisterSource (of the factory of "payload").
Matchers == {"match1", "match2"}
Loader == "load"
Registrar == "register"
Goroutines == Matchers \cup {Loader, Registrar}

\* The registry after the start of the process: two factories registered
\* and their sources loaded.
StartRegistry == [factories |-> {"http", "fs"}, sources |-> {"http", "fs"}]

Unlocked == [writer |-> FALSE, readers |-> 0]

\* mu.Lock returns when no writer and no reader holds the mutex.
CanLock(mu) == ~mu.writer /\ mu.readers = 0

\* An RLock that does not wait for the writer.
CanRLockAnyTime(mu) == TRUE

\* mu.RLock returns when no writer holds the mutex.
CanRLock(mu) == ~mu.writer

\* clears: the build whose LoadSources deletes the loaded sources first
\* (source.go) or the one that stores over them (part_003).
NoLocals ==
    [clears |-> TRUE, pending |-> {}, seen |-> [m \in Matchers |-> {}], visits |-> [m \in Matchers |-> 0]]

\* No goroutine uses the registry.
ConcurrentIdle ==
    /\ crReg = StartRegistry
    /\ crMu = Unlocked
    /\ crPc = [g \in Goroutines |-> "idle"]
    /\ crLoc = NoLocals
    /\ crComplete = {}

\* MatchSource: registry.mu.RLock()
MatchRLock(m) ==
    /\ crPc[m] = "start" /\ CanRLock(crMu)
    /\ crMu' = [crMu EXCEPT !.readers = @ + 1]
    /\ crPc' = [crPc EXCEPT ![m] = "ranging"]
    /\ UNCHANGED <<crReg, crLoc, crComplete>>
    /\ UNCHANGED <<fsVars, httpVars, plVars, sigVars, chVars, rlVars, hdVars, bdVars,
                   rgVars, opVars>>

\* MatchSource: one iteration of the range over registry.sources; the
\* goroutine sees the sources that the map holds now.
MatchVisit(m) ==
    /\ crPc[m] = "ranging" /\ crLoc.visits[m] < MaxVisits
    /\ crLoc' = [crLoc EXCEPT !.seen[m] = @ \cup {crReg.sources},
                              !.visits[m] = @ + 1]
    /\ UNCHANGED <<crReg, crMu, crPc, crComplete>>
    /\ UNCHANGED <<fsVars, httpVars, plVars, sigVars, chVars, rlVars, hdVars, bdVars,
                   rgVars, opVars>>

\* MatchSource returns: the deferred registry.mu.RUnlock()
MatchRUnlock(m) ==
    /\ crPc[m] = "ranging"
    /\ crMu' = [crMu EXCEPT !.readers = IF @ > 0 THEN @ - 1 ELSE 0]
    /\ crPc' = [crPc EXCEPT ![m] = "done"]
    /\ UNCHANGED <<crReg, crLoc, crComplete>>
    /\ UNCHANGED <<fsVars, httpVars, plVars, sigVars, chVars, rlVars, hdVars, bdVars,
                   rgVars, opVars>>

\* RegisterSource: registry.mu.Lock()
RegisterLock ==
    /\ crPc[Registrar] = "start" /\ CanLock(crMu)
    /\ crMu' = [crMu EXCEPT !.writer = TRUE]
    /\ crPc' = [crPc EXCEPT ![Registrar] = "locked"]
    /\ UNCHANGED <<crReg, crLoc, crComplete>>
    /\ UNCHANGED <<fsVars, httpVars, plVars, sigVars, chVars, rlVars, hdVars, bdVars,
                   rgVars, opVars>>

\* RegisterSource: registry.factories[sourceType] = factory
RegisterWrite ==
    /\ crPc[Registrar] = "locked"
    /\ crReg' = [crReg EXCEPT !.factories = @ \cup {"payload"}]
    /\ crPc' = [crPc EXCEPT ![Registrar] = "written"]
    /\ UNCHANGED <<crMu, crLoc, crComplete>>
    /\ UNCHANGED <<fsVars, httpVars, plVars, sigVars, chVars, rlVars, hdVars, bdVars,
                   rgVars, opVars>>

\* RegisterSource: registry.mu.Unlock()
RegisterUnlock ==
    /\ crPc[Registrar] = "written"
    /\ crMu' = [crMu EXCEPT !.writer = FALSE]
    /\ crPc' = [crPc EXCEPT ![Registrar] = "done"]
    /\ UNCHANGED <<crReg, crLoc, crComplete>>
    /\ UNCHANGED <<fsVars, httpVars, plVars, sigVars, chVars, rlVars, hdVars, bdVars,
                   rgVars, opVars>>

\* LoadSources: registry.mu.Lock()
LoadLock ==
    /\ crPc[Loader] = "start" /\ CanLock(crMu)
    /\ crMu' = [crMu EXCEPT !.writer = TRUE]
    /\ crPc' = [crPc EXCEPT ![Loader] = IF crLoc.clears THEN "clearing" ELSE "loading"]
    /\ crLoc' = [crLoc EXCEPT !.pending = IF crLoc.clears THEN @ ELSE crReg.factories]
    /\ UNCHANGED <<crReg, crComplete>>
    /\ UNCHANGED <<fsVars, httpVars, plVars, sigVars, chVars, rlVars, hdVars, bdVars,
                   rgVars, opVars>>

\* LoadSources: delete(registry.sources, k) for one key; after the last, the
\* config is built and the range over the factories begins.
LoadDelete ==
    /\ crPc[Loader] = "clearing"
    /\ IF crReg.sources = {}
       THEN /\ crPc' = [crPc EXCEPT ![Loader] = "loading"]
            /\ crLoc' = [crLoc EXCEPT !.pending = crReg.factories]
            /\ UNCHANGED crReg
       ELSE \E k \in crReg.sources :
               /\ crReg' = [crReg EXCEPT !.sources = @ \ {k}]
               /\ UNCHANGED <<crPc, crLoc>>
    /\ UNCHANGED <<crMu, crComplete>>
    /\ UNCHANGED <<fsVars, httpVars, plVars, sigVars, chVars, rlVars, hdVars, bdVars,
                   rgVars, opVars>>

\* LoadSources: registry.sources[name] = factory(config) for one factory.
LoadStore ==
    /\ crPc[Loader] = "loading" /\ crLoc.pending # {}
    /\ \E name \in crLoc.pending :
          /\ crReg' = [crReg EXCEPT !.sources = @ \cup {name}]
          /\ crLoc' = [crLoc EXCEPT !.pending = @ \ {name}]
    /\ UNCHANGED <<crMu, crPc, crComplete>>
    /\ UNCHANGED <<fsVars, httpVars, plVars, sigVars, chVars, rlVars, hdVars, bdVars,
                   rgVars, opVars>>

\* LoadSources returns: the deferred registry.mu.Unlock()
LoadUnlock ==
    /\ crPc[Loader] = "loading" /\ crLoc.pending = {}
    /\ crMu' = [crMu EXCEPT !.writer = FALSE]
    /\ crPc' = [crPc EXCEPT ![Loader] = "done"]
    /\ crComplete' = crComplete \cup {crReg.sources}
    /\ UNCHANGED <<crReg, crLoc>>
    /\ UNCHANGED <<fsVars, httpVars, plVars, sigVars, chVars, rlVars, hdVars, bdVars,
                   rgVars, opVars>>

\* A step of a goroutine inside MatchSource.
MatchStep == \E m \in Matchers : crPc'[m] # crPc[m] \/ crLoc'.visits[m] # crLoc.visits[m]

\* Every source set a MatchSource has seen is one that a completed
\* LoadSources left (that of the start included), and it has seen one only.
SeesCompleteSets ==
    \A m \in Matchers :
        /\ crLoc.seen[m] \subseteq crComplete
        /\ Cardinality(crLoc.seen[m]) <= 1

\* C31: concurrent MatchSource calls interleaved with RegisterSource and
\* LoadSources see the complete source set from before a LoadSources or the
\* complete set from after it, never a partly cleared or partly loaded one,
\* and no step of MatchSource changes the factories or the sources.
C31_MatchSourceSeesCompleteSets ==
    /\ []SeesCompleteSets
    /\ [][MatchStep => UNCHANGED crReg]_vars

\* One call saw the sources from before the load, the other, afterwards,
\* those of the three factories.
C31_Witness ==
    /\ crPc["match1"] = "done" /\ crPc["match2"] = "done" /\ crPc[Loader] = "done"
    /\ crLoc.seen["match1"] = {{"http", "fs"}}
    /\ crLoc.seen["match2"] = {{"http", "fs", "payload"}}

\* A call that waited while LoadSources had cleared the sources; and the
\* same of the build that stores over the loaded sources.
C31_WitnessWaiting ==
    /\ crLoc.clears /\ crPc["match1"] = "start" /\ crPc[Loader] \in {"clearing", "loading"}
    /\ crReg.sources # {"http", "fs"} /\ crReg.sources \notin crComplete
    /\ crPc["match2"] = "done" /\ crLoc.seen["match2"] # {}

C31_WitnessStoredOver ==
    /\ ~crLoc.clears /\ crPc["match1"] = "start" /\ crPc[Loader] = "loading"
    /\ crReg.sources = {"http", "fs"} /\ crLoc.pending = {"payload"}
    /\ crPc["match2"] = "done" /\ crLoc.seen["match2"] # {}

(***************************************************************************)
(* Specifications                                                          *)
(***************************************************************************)

InitFS ==
    /\ fsMount \in MountPaths
    /\ fsFile \in FileParams
    /\ fsOut = FSIdleOut
    /\ fsServed = FALSE
    /\ HTTPIdle /\ PLIdle /\ SigIdle /\ ChainIdle /\ RateIdle /\ HandlerIdle /\ BodyIdle
    /\ RegistryIdle /\ OperationIdle
    /\ ConcurrentIdle

NextFS == FSRequest

SpecFS == InitFS /\ [][NextFS]_vars

InitHTTP ==
    /\ httpAllowed \in AllowLists
    /\ httpMaxSize \in {0, FetchLimit}
    /\ httpURL \in RequestURLs
    /\ httpOut = HTTPIdleOut
    /\ httpServed = FALSE
    /\ httpBuild \in HTTPBuilds
    /\ httpAuth = AuthOff
    /\ httpHdr = NoHeaders
    /\ httpRemote = NoRemote
    /\ FSIdle /\ PLIdle /\ SigIdle /\ ChainIdle /\ RateIdle /\ HandlerIdle /\ BodyIdle
    /\ RegistryIdle /\ OperationIdle
    /\ ConcurrentIdle

NextHTTP == HTTPRequest

SpecHTTP == InitHTTP /\ [][NextHTTP]_vars

\* The remote source fetching one admitted URL, for every build, every
\* authorization configuration and every set of caller headers.
InitFetch ==
    /\ httpAllowed = <<>>
    /\ httpMaxSize \in {0, FetchLimit}
    /\ httpURL = [bad |-> FALSE, Host |-> <<"a">>, Path |-> <<"/", "p">>]
    /\ httpOut = HTTPIdleOut
    /\ httpServed = FALSE
    /\ httpBuild \in HTTPBuilds
    /\ httpAuth \in AuthConfigs
    /\ httpHdr \in CallerHeaders
    /\ httpRemote = NoRemote
    /\ FSIdle /\ PLIdle /\ SigIdle /\ ChainIdle /\ RateIdle /\ HandlerIdle /\ BodyIdle
    /\ RegistryIdle /\ OperationIdle
    /\ ConcurrentIdle

NextFetch == HTTPRequest

SpecFetch == InitFetch /\ [][NextFetch]_vars

InitHandler ==
    /\ hdOpts \in HandlerOptions
    /\ hdReq \in HandlerRequests
    /\ hdOut = HDIdleOut
    /\ hdServed = FALSE
    /\ FSIdle /\ HTTPIdle /\ PLIdle /\ SigIdle /\ ChainIdle /\ RateIdle /\ BodyIdle
    /\ RegistryIdle /\ OperationIdle
    /\ ConcurrentIdle

NextHandler == HandlerRequest

SpecHandler == InitHandler /\ [][NextHandler]_vars

InitBody ==
    /\ bdBuild \in BodyBuilds
    /\ bdReq \in BodyRequests
    /\ bdOut = BDIdleOut
    /\ bdServed = FALSE
    /\ FSIdle /\ HTTPIdle /\ PLIdle /\ SigIdle /\ ChainIdle /\ RateIdle /\ HandlerIdle
    /\ RegistryIdle /\ OperationIdle
    /\ ConcurrentIdle

NextBody == BodyRequest

SpecBody == InitBody /\ [][NextBody]_vars

InitRegistry ==
    /\ rgBuild \in FSBuilds
    /\ rgReq \in RegistryRequests
    /\ rgRes = <<>>
    /\ rgOpts \in SourceOptions
    /\ rgGot = NoGot
    /\ FSIdle /\ HTTPIdle /\ PLIdle /\ SigIdle /\ ChainIdle /\ RateIdle /\ HandlerIdle
    /\ BodyIdle /\ OperationIdle
    /\ ConcurrentIdle

NextRegistry == Resolve \/ GetFromURL

SpecRegistry == InitRegistry /\ [][NextRegistry]_vars

InitOperation ==
    /\ opReq \in OperationRequests
    /\ opOut = OPIdleOut
    /\ opServed = FALSE
    /\ FSIdle /\ HTTPIdle /\ PLIdle /\ SigIdle /\ ChainIdle /\ RateIdle /\ HandlerIdle
    /\ BodyIdle /\ RegistryIdle
    /\ ConcurrentIdle

NextOperation == OperationRun

SpecOperation == InitOperation /\ [][NextOperation]_vars

InitConcurrent ==
    /\ crReg = StartRegistry
    /\ crMu = Unlocked
    /\ crPc = [g \in Goroutines |-> "start"]
    /\ \E clears \in BOOLEAN : crLoc = [NoLocals EXCEPT !.clears = clears]
    /\ crComplete = {StartRegistry.sources}
    /\ FSIdle /\ HTTPIdle /\ PLIdle /\ SigIdle /\ ChainIdle /\ RateIdle /\ HandlerIdle
    /\ BodyIdle /\ RegistryIdle /\ OperationIdle

NextConcurrent ==
    \/ \E m \in Matchers : MatchRLock(m)
    \/ \E m \in Matchers : MatchVisit(m)
    \/ \E m \in Matchers : MatchRUnlock(m)
    \/ RegisterLock \/ RegisterWrite \/ RegisterUnlock
    \/ LoadLock \/ LoadDelete \/ LoadStore \/ LoadUnlock

SpecConcurrent == InitConcurrent /\ [][NextConcurrent]_vars

InitPipeline ==
    /\ plOps \in StepLists
    /\ plOut = PLIdleOut
    /\ plServed = FALSE
    /\ FSIdle /\ HTTPIdle /\ SigIdle /\ ChainIdle /\ RateIdle /\ HandlerIdle /\ BodyIdle
    /\ RegistryIdle /\ OperationIdle
    /\ ConcurrentIdle

NextPipeline == PipelineRequest

SpecPipeline == InitPipeline /\ [][NextPipeline]_vars

InitSig ==
    /\ sigKey \in SigKeys
    /\ \E path \in SigPaths, params \in SigParams :
          \E sign \in SignValues(sigKey, path, params), present \in BOOLEAN :
             sigReq = [Path |-> path,
                       Query |-> IF sign = <<>> /\ ~present THEN params
                                 ELSE params \cup {[k |-> Sign, v |-> sign]}]
    /\ sigOut = SigIdleOut
    /\ sigServed = FALSE
    /\ FSIdle /\ HTTPIdle /\ PLIdle /\ ChainIdle /\ RateIdle /\ HandlerIdle /\ BodyIdle
    /\ RegistryIdle /\ OperationIdle
    /\ ConcurrentIdle

NextSig == SigRequest

SpecSig == InitSig /\ [][NextSig]_vars

InitChain ==
    /\ chOpts \in ChainOptions
    /\ chReq \in ChainRequests(chOpts)
    /\ chTrace = [trace |-> <<>>, work |-> <<>>, hdrs |-> {}]
    /\ chResp = NoResponse
    /\ chServed = 0
    /\ RateIdle
    /\ FSIdle /\ HTTPIdle /\ PLIdle /\ SigIdle /\ HandlerIdle /\ BodyIdle
    /\ RegistryIdle /\ OperationIdle
    /\ ConcurrentIdle

NextChain == ChainRequest

SpecChain == InitChain /\ [][NextChain]_vars

InitRate ==
    /\ chOpts \in {[OptionsOff EXCEPT !.Concurrency = r, !.Burst = b] :
                      r \in Rates, b \in Bursts}
    /\ chReq = NoRequest
    /\ chTrace = [trace |-> <<>>, work |-> <<>>, hdrs |-> {}]
    /\ chResp = NoResponse
    /\ chServed = 0
    /\ rlNow = 0
    /\ rlStore = <<>>
    /\ rlWindow = <<>>
    /\ rlLast = NoDecision
    /\ rlDenied = {}
    /\ rlTraffic \in Traffics
    /\ FSIdle /\ HTTPIdle /\ PLIdle /\ SigIdle /\ HandlerIdle /\ BodyIdle
    /\ RegistryIdle /\ OperationIdle
    /\ ConcurrentIdle

NextRate == RateRequest \/ RateTick

SpecRate == InitRate /\ [][NextRate]_vars

=============================================================================
